---- MODULE Spec2Model ----
(***************************************************************************)
(* Marginalia: the conversation store (localStorage-backed paragraph       *)
(* conversations), the chat / prefilter API routes, and the page that      *)
(* caches prefilter results and consumes the chat streams.                 *)
(***************************************************************************)
EXTENDS Integers, Sequences, FiniteSets, TLC

(***************************************************************************)
(* Bounds of the model.                                                    *)
(***************************************************************************)
\* number of store operations of one behaviour
MaxOps == 4
\* a request names at most MaxSources sources
MaxSources == 2
\* the provider streams at most MaxDeltas deltas, over all agents of a request
MaxDeltas == 2

\* the page makes at most MaxCalls generateSingleResponse calls
MaxCalls == 2
\* the chat streams deliver at most MaxChunks chunks, over all calls
MaxChunks == 2
\* the page issues at most MaxFetches prefilter calls
MaxFetches == 3

\* paragraph indexes of the active paper
ParagraphIndexes == {0, 1}
\* readings of Date.now()
Times == {0, 1}
\* values of Math.random().toString(36).substr(2, 9)
RandomStrings == {"r1", "r2"}
\* commenting papers (sourceId values)
Papers == {"p1", "p2"}
\* `question?: string`: undefined or a text
NoQuestion == "undefined"
Questions == {NoQuestion, "q1"}
\* ids of the sources a request can name
SourceIds == 1..MaxSources
\* chunk.choices[0]?.delta?.content of a provider delta: empty or a text
DeltaTexts == {"", "a", "b"}

VARIABLES
    \* ---- conversation store ----
    localStorage,   \* the JSON text under PARAGRAPH_CONVERSATIONS(workspaceId, activePaperId)
    now,            \* Date.now()
    returned,       \* the <<paragraphIndex, exchange id>> pairs startExchange has returned to its callers
    issued,         \* per paragraph: the questions of the startExchange calls since the last clear, in call order
    lastOp,         \* the last store operation and what it was applied to
    ops,            \* number of store operations so far
    \* ---- one request to /api/chat or /api/prefilter ----
    request,        \* the request body, and the route it was sent to
    status,         \* status of the Response returned, 0 while none is
    targetSources,  \* targetSources of the chat handler
    pc,             \* per target: where its agent task is
    generated,      \* per target: the texts streamContent has yielded, in order
    deltas,         \* number of deltas the provider has streamed
    channel,        \* the events the stream controller has taken, in order
    controller,     \* the ReadableStream: "readable", "cancelled" by the consumer, "closed" by close()
    closed,         \* the handler's `closed` flag
    handler,        \* where the request handler is
    startRejected,  \* an exception has escaped start(controller)
    llmCalls,       \* number of calls made to the LLM client
    responseBody,   \* JSON body of a prefilter Response, NoBody when there is none
    llmText,        \* the text generateContent returned to the prefilter handler
    \* ---- the page ----
    selectedParagraphIndex, \* the paragraph selected, NoSelection when none is
    responses,      \* the response slots shown, each with the call it was created for
    calls,          \* the generateSingleResponse calls: their arguments, finalContent and stream
    engagements,    \* per paragraph: whether a prefilter result is cached, and the papers it names
    fetching,       \* per paragraph: number of prefilter calls of fetchEngagement in flight
    fetchCount,     \* number of prefilter calls issued so far
    refetches,      \* who has issued a prefilter call for a paragraph whose result was cached
    scan,           \* scanDocumentEngagements: its phase, the engagements it captured, its batch
    \* ---- the library and the workspaces ----
    papers,         \* the JSON text under PAPERS: the papers of the library
    papersView,     \* the `papers` state of the usePapers instance the page renders from
    extractions,    \* the calls of extractMetadataAsync in flight: paper id, text and title sent
    sourceTexts,    \* per paper, in creation order: the text its upload obtained, NoText when none
    lastEvent,      \* the last thing that happened to a paper in the library
    workspaces,     \* the JSON text under WORKSPACES
    workspacesView, \* the `workspaces` state of useWorkspaces
    activeWorkspaceId, \* the JSON text under ACTIVE_WORKSPACE
    activeId,       \* the `activeWorkspaceId` state of useWorkspaces
    \* ---- calls of the pure functions of lib/llm.ts and lib/prompts.ts ----
    tokenCalls,     \* the isWithinTokenLimit calls made: text, estimate and answer
    promptCalls,    \* the agent prompts the chat route has built: inputs and prompt
    identityCalls,  \* the parseIdentityLayerResponse calls made: response and result
    \* ---- the reading view across active papers and workspaces ----
    activePair,     \* <<activeWorkspaceId, activePaper.id>> of the current render of Home
    conversationsOf,   \* per pair: the JSON text under its conversations key
    savedConversations, \* the `conversations` state of useParagraphConversations
    scanEngagementsOf, \* per pair: the value under its scan engagements key
    viewEngagements,   \* the `engagements` state of useScanEngagements
    streams,        \* the generateSingleResponse calls of the view: the pair, paragraph,
                    \* exchange and paper each was made with, and how its stream stands
    loadingSourceId,   \* the `loadingSourceId` state of Home
    exchangesStarted   \* number of exchanges started in the view so far

storeVars == <<localStorage, now, returned, issued, lastOp, ops>>

chatVars == <<request, status, targetSources, pc, generated, deltas, channel,
              controller, closed, handler, startRejected, llmCalls, responseBody, llmText>>

pageVars == <<selectedParagraphIndex, responses, calls, engagements, fetching, fetchCount,
              refetches, scan>>

readingVars == <<activePair, conversationsOf, savedConversations, scanEngagementsOf,
                 viewEngagements, streams, loadingSourceId, exchangesStarted>>

fnVars == <<tokenCalls, promptCalls, identityCalls, readingVars>>

libVars == <<papers, papersView, extractions, sourceTexts, lastEvent, workspaces, workspacesView,
             activeWorkspaceId, activeId, fnVars>>

vars == <<storeVars, chatVars, pageVars, libVars>>

(***************************************************************************)
(* Sequence helpers.                                                       *)
(***************************************************************************)
IsPrefix(s, t) == Len(s) <= Len(t) /\ \A i \in 1..Len(s) : s[i] = t[i]

RECURSIVE IsSubseqFrom(_, _, _, _)
\* s[i..] is a subsequence of t[j..]
IsSubseqFrom(s, t, i, j) ==
    IF i > Len(s) THEN TRUE
    ELSE IF j > Len(t) THEN FALSE
    ELSE IF s[i] = t[j] THEN IsSubseqFrom(s, t, i + 1, j + 1)
    ELSE IsSubseqFrom(s, t, i, j + 1)

IsSubseq(s, t) == IsSubseqFrom(s, t, 1, 1)

(***************************************************************************)
(* Storage helpers: values go through JSON.stringify / JSON.parse.         *)
(* JSON.stringify drops a property whose value is undefined; reading an    *)
(* absent property yields undefined.                                       *)
(***************************************************************************)
StringifyExchange(e) ==
    IF e.question = NoQuestion
    THEN [id |-> e.id, timestamp |-> e.timestamp, responses |-> e.responses]
    ELSE [id |-> e.id, timestamp |-> e.timestamp, question |-> e.question,
          responses |-> e.responses]

ParseExchange(j) ==
    [id |-> j.id, timestamp |-> j.timestamp,
     question |-> IF "question" \in DOMAIN j THEN j.question ELSE NoQuestion,
     responses |-> j.responses]

StringifyConversation(c) ==
    [paragraphIndex |-> c.paragraphIndex, paragraphText |-> c.paragraphText,
     exchanges |-> [i \in 1..Len(c.exchanges) |-> StringifyExchange(c.exchanges[i])]]

ParseConversation(j) ==
    [paragraphIndex |-> j.paragraphIndex, paragraphText |-> j.paragraphText,
     exchanges |-> [i \in 1..Len(j.exchanges) |-> ParseExchange(j.exchanges[i])]]

\* setItem: localStorage.setItem(key, JSON.stringify(value))
setItem(value) == [i \in 1..Len(value) |-> StringifyConversation(value[i])]

\* getItem: JSON.parse(localStorage.getItem(key)), [] when nothing is stored
getItem(item) == [i \in 1..Len(item) |-> ParseConversation(item[i])]

getParagraphConversations == getItem(localStorage)

saveParagraphConversations(conversations) == setItem(conversations)

\* `${Date.now()}-${Math.random().toString(36).substr(2, 9)}`
generateId(t, r) == <<t, r>>

\* the text of a paragraph of the active paper
ParagraphTextOf(paragraphIndex) == <<"text", paragraphIndex>>

\* the text a paper streamed in answer to the request made for an exchange
contentOf(sourceId, exchangeId) == <<"response", sourceId, exchangeId>>

(***************************************************************************)
(* Conversation store operations.                                          *)
(***************************************************************************)
\* conversations.find(c => c.paragraphIndex === paragraphIndex): its position, 0 when absent
findConversation(conversations, paragraphIndex) ==
    IF \E i \in 1..Len(conversations) : conversations[i].paragraphIndex = paragraphIndex
    THEN CHOOSE i \in 1..Len(conversations) :
            /\ conversations[i].paragraphIndex = paragraphIndex
            /\ \A k \in 1..(i - 1) : conversations[k].paragraphIndex # paragraphIndex
    ELSE 0

\* conversation.exchanges.find(e => e.id === exchangeId): its position, 0 when absent
findExchange(exchanges, exchangeId) ==
    IF \E i \in 1..Len(exchanges) : exchanges[i].id = exchangeId
    THEN CHOOSE i \in 1..Len(exchanges) :
            /\ exchanges[i].id = exchangeId
            /\ \A k \in 1..(i - 1) : exchanges[k].id # exchangeId
    ELSE 0

getOrCreateParagraphConversation(paragraphIndex, paragraphText) ==
    LET conversations == getParagraphConversations
        i == findConversation(conversations, paragraphIndex)
    IN  IF i = 0
        THEN [conversations |->
                 Append(conversations,
                        [paragraphIndex |-> paragraphIndex,
                         paragraphText |-> paragraphText,
                         exchanges |-> <<>>]),
              index |-> Len(conversations) + 1]
        ELSE [conversations |-> conversations, index |-> i]

pushExchangeReplacing(exchanges, exchange) == <<exchange>>

\* conversation.exchanges.push(exchange)
pushExchange(exchanges, exchange) == Append(exchanges, exchange)

\* the value addExchangeToParagraph saves, and the exchange it returns
addExchangeToParagraph(paragraphIndex, paragraphText, question, t, r) ==
    LET got == getOrCreateParagraphConversation(paragraphIndex, paragraphText)
        exchange == [id |-> generateId(t, r), timestamp |-> t,
                     question |-> question, responses |-> <<>>]
        c == got.conversations[got.index]
    IN  [saved |-> saveParagraphConversations(
                       [got.conversations EXCEPT ![got.index] =
                           [c EXCEPT !.exchanges = pushExchange(c.exchanges, exchange)]]),
         exchange |-> exchange]

\* the record and the exchange are created when they are missing
addResponseToExchangeOrCreate(paragraphIndex, exchangeId, response, t) ==
    LET got == getOrCreateParagraphConversation(paragraphIndex, ParagraphTextOf(paragraphIndex))
        c == got.conversations[got.index]
        stored == [sourceId |-> response.sourceId, content |-> response.content,
                   timestamp |-> t]
        k == findExchange(c.exchanges, exchangeId)
    IN  IF k = 0
        THEN saveParagraphConversations(
                 [got.conversations EXCEPT ![got.index].exchanges =
                     Append(@, [id |-> exchangeId, timestamp |-> t, question |-> NoQuestion,
                                responses |-> <<stored>>])])
        ELSE saveParagraphConversations(
                 [got.conversations EXCEPT ![got.index].exchanges[k].responses =
                     Append(@, stored)])

\* the value addResponseToExchange leaves in storage
addResponseToExchange(paragraphIndex, exchangeId, response, t) ==
    LET conversations == getParagraphConversations
        i == findConversation(conversations, paragraphIndex)
    IN  IF i = 0 THEN localStorage
        ELSE LET k == findExchange(conversations[i].exchanges, exchangeId)
             IN  IF k = 0 THEN localStorage
                 ELSE saveParagraphConversations(
                          [conversations EXCEPT ![i].exchanges[k].responses =
                              Append(@, [sourceId |-> response.sourceId,
                                         content |-> response.content,
                                         timestamp |-> t])])

matchesAnySource(r, sourceId) == TRUE

\* r => r.sourceId === sourceId
matchesSource(r, sourceId) == r.sourceId = sourceId

\* exchange.responses.find(r => r.sourceId === sourceId): its position, 0 when absent
findResponse(stored, sourceId) ==
    IF \E i \in 1..Len(stored) : matchesSource(stored[i], sourceId)
    THEN CHOOSE i \in 1..Len(stored) :
            /\ matchesSource(stored[i], sourceId)
            /\ \A k \in 1..(i - 1) : ~matchesSource(stored[k], sourceId)
    ELSE 0

historyUnshift(history, entry) == <<entry>> \o history

\* history.push({question, response})
historyPush(history, entry) == Append(history, entry)

RECURSIVE historyLoop(_, _, _, _)
\* for (const exchange of conversation.exchanges) { ... }
historyLoop(exchanges, sourceId, i, history) ==
    IF i > Len(exchanges) THEN history
    ELSE LET k == findResponse(exchanges[i].responses, sourceId)
         IN  IF k = 0 THEN historyLoop(exchanges, sourceId, i + 1, history)
             ELSE historyLoop(exchanges, sourceId, i + 1,
                      historyPush(history,
                                  [question |-> exchanges[i].question,
                                   response |-> exchanges[i].responses[k].content]))

\* getSourceHistoryForParagraph on conversations already read
historyIn(conversations, paragraphIndex, sourceId) ==
    LET i == findConversation(conversations, paragraphIndex)
    IN  IF i = 0 THEN <<>>
        ELSE historyLoop(conversations[i].exchanges, sourceId, 1, <<>>)

getSourceHistoryForParagraph(paragraphIndex, sourceId) ==
    historyIn(getParagraphConversations, paragraphIndex, sourceId)

\* the exchanges of a paragraph's record (none when it has no record)
exchangesAmong(conversations, paragraphIndex) ==
    LET i == findConversation(conversations, paragraphIndex)
    IN  IF i = 0 THEN <<>> ELSE conversations[i].exchanges

RECURSIVE filterConversations(_, _)
\* conversations.filter(c => c.paragraphIndex !== paragraphIndex)
filterConversations(conversations, paragraphIndex) ==
    IF conversations = <<>> THEN <<>>
    ELSE IF Head(conversations).paragraphIndex # paragraphIndex
         THEN <<Head(conversations)>> \o filterConversations(Tail(conversations), paragraphIndex)
         ELSE filterConversations(Tail(conversations), paragraphIndex)

clearLastExchangeOnly(conversations, paragraphIndex) ==
    [i \in 1..Len(conversations) |->
        IF conversations[i].paragraphIndex = paragraphIndex /\ conversations[i].exchanges # <<>>
        THEN [conversations[i] EXCEPT
                 !.exchanges = SubSeq(@, 1, Len(@) - 1)]
        ELSE conversations[i]]

clearAllConversations(conversations, paragraphIndex) == <<>>

\* the value clearParagraphConversation saves
clearFiltered(conversations, paragraphIndex) ==
    filterConversations(conversations, paragraphIndex)

clearParagraphConversation(paragraphIndex) ==
    saveParagraphConversations(clearFiltered(getParagraphConversations, paragraphIndex))

\* the exchanges a stored item holds for a paragraph (none when it has no record)
exchangesIn(item, paragraphIndex) == exchangesAmong(getItem(item), paragraphIndex)

exchangesOf(paragraphIndex) == exchangesIn(localStorage, paragraphIndex)

(***************************************************************************)
(* The hook useParagraphConversations: one action per callback.            *)
(***************************************************************************)
\* no Response with a result has been returned
NoBody == [body |-> "none"]

\* identityLayer: null
NullLayer == "null"
\* sourceTexts: the upload has obtained no text (yet)
NoText == "no text"
\* no paper
NoPaper == "null"
NoPaperRecord ==
    [id |-> NoPaper, title |-> "", author |-> "", fullText |-> "",
     identityLayer |-> NullLayer, status |-> "undefined"]

NoEvent == [kind |-> "none", id |-> NoPaper, before |-> NoPaperRecord,
            layer |-> NullLayer, text |-> NoText]

\* no workspace
NoWorkspace == "null"

NoLibrary ==
    /\ papers = <<>>
    /\ papersView = <<>>
    /\ extractions = {}
    /\ sourceTexts = <<>>
    /\ lastEvent = NoEvent
    /\ workspaces = <<>>
    /\ workspacesView = <<>>
    /\ activeWorkspaceId = NoWorkspace
    /\ activeId = NoWorkspace

\* no request has been received
NoRequest ==
    /\ request = [route |-> "none"]
    /\ status = 0
    /\ targetSources = <<>>
    /\ pc = <<>>
    /\ generated = <<>>
    /\ deltas = 0
    /\ channel = <<>>
    /\ controller = "readable"
    /\ closed = FALSE
    /\ handler = "idle"
    /\ startRejected = FALSE
    /\ llmCalls = 0
    /\ responseBody = NoBody
    /\ llmText = [array |-> "unasked"]

\* `const batchSize = 3` of scanDocumentEngagements
batchSize == 3

\* useState<number | null>(null): no paragraph is selected
NoSelection == -1

\* activePaper.paragraphs: the type of each paragraph. The paper has a heading,
\* a paragraph, headings up to the end of the first scan batch, and a paragraph.
paragraphTypes == [i \in 0..batchSize |-> IF i = 1 \/ i = batchSize THEN "p" ELSE "h2"]

\* para.type === 'h1' || para.type === 'h2' || para.type === 'h3'
isHeader(i) == paragraphTypes[i] \in {"h1", "h2", "h3"}

\* engagements has no entry for the paragraph
NotCached == [cached |-> FALSE, ids |-> {}]

\* at most MaxExchanges exchanges are started in the reading view
MaxExchanges == 2

\* the (workspace, active paper) pairs the reader moves between
ReadingPairs == {<<"w1", "a1">>, <<"w1", "a2">>, <<"w2", "a1">>}

\* useState<string | null>(null)
NoLoading == "null"

\* the papers a scan of the pair's active paper found engaged with its paragraphs
scannedFor(pair) == IF pair[2] = "a1" THEN {"p1", "p2"} ELSE {"p1"}

\* the stored scan engagements of a pair after a scan of its document
scannedEngagements(pair) ==
    [i \in DOMAIN paragraphTypes |->
        IF isHeader(i) THEN NotCached ELSE [cached |-> TRUE, ids |-> scannedFor(pair)]]

\* the reading view as it is mounted on the first pair, every pair scanned, no
\* conversation stored
NoReading ==
    /\ activePair = <<"w1", "a1">>
    /\ conversationsOf = [pair \in ReadingPairs |-> <<>>]
    /\ savedConversations = <<>>
    /\ scanEngagementsOf = [pair \in ReadingPairs |-> scannedEngagements(pair)]
    /\ viewEngagements = scannedEngagements(<<"w1", "a1">>)
    /\ streams = <<>>
    /\ loadingSourceId = NoLoading
    /\ exchangesStarted = 0

NoCalls ==
    /\ tokenCalls = <<>>
    /\ promptCalls = <<>>
    /\ identityCalls = <<>>
    /\ NoReading

\* the page as it is mounted, nothing persisted
NoPage ==
    /\ selectedParagraphIndex = NoSelection
    /\ responses = <<>>
    /\ calls = <<>>
    /\ engagements = [i \in DOMAIN paragraphTypes |-> NotCached]
    /\ fetching = [i \in DOMAIN paragraphTypes |-> 0]
    /\ fetchCount = 0
    /\ refetches = {}
    /\ scan = [phase |-> "idle", snapshot |-> {}, next |-> 0, pending |-> {}]

EmptyStore ==
    /\ localStorage = <<>>
    /\ now = 0
    /\ returned = {}
    /\ issued = [p \in ParagraphIndexes |-> <<>>]
    /\ lastOp = [op |-> "none", paragraphIndex |-> 0, before |-> 0]
    /\ ops = 0

StoreInit == EmptyStore /\ NoRequest /\ NoPage /\ NoLibrary /\ NoCalls

\* the readings Date.now() can give at the next call
ClockReadings == {t \in Times : t >= now}

startExchange(paragraphIndex, question, r, t) ==
    /\ ops < MaxOps
    /\ now' = t
    /\ LET res == addExchangeToParagraph(paragraphIndex, ParagraphTextOf(paragraphIndex),
                                         question, t, r)
       IN  /\ localStorage' = res.saved
           /\ returned' = returned \cup {<<paragraphIndex, res.exchange.id>>}
    /\ issued' = [issued EXCEPT ![paragraphIndex] = Append(@, question)]
    /\ lastOp' = [op |-> "startExchange", paragraphIndex |-> paragraphIndex,
                  before |-> Len(exchangesOf(paragraphIndex))]
    /\ ops' = ops + 1
    /\ UNCHANGED <<chatVars, pageVars, libVars>>

addResponse(paragraphIndex, exchangeId, sourceId, content, t) ==
    /\ ops < MaxOps
    /\ now' = t
    /\ localStorage' = addResponseToExchange(paragraphIndex, exchangeId,
                           [sourceId |-> sourceId, content |-> content], t)
    /\ lastOp' = [op |-> "addResponse", paragraphIndex |-> paragraphIndex,
                  before |-> Len(exchangesOf(paragraphIndex))]
    /\ ops' = ops + 1
    /\ UNCHANGED <<returned, issued>>
    /\ UNCHANGED <<chatVars, pageVars, libVars>>

clearConversation(paragraphIndex) ==
    /\ ops < MaxOps
    /\ localStorage' = clearParagraphConversation(paragraphIndex)
    /\ issued' = [issued EXCEPT ![paragraphIndex] = <<>>]
    /\ lastOp' = [op |-> "clearConversation", paragraphIndex |-> paragraphIndex,
                  before |-> Len(exchangesOf(paragraphIndex))]
    /\ ops' = ops + 1
    /\ UNCHANGED <<now, returned>>
    /\ UNCHANGED <<chatVars, pageVars, libVars>>

StartExchangeStep ==
    \E p \in ParagraphIndexes, q \in Questions, r \in RandomStrings, t \in ClockReadings :
        startExchange(p, q, r, t)

AddResponseStep ==
    \E h \in returned, s \in Papers, t \in ClockReadings :
        addResponse(h[1], h[2], s, contentOf(s, h[2]), t)

ClearConversationStep ==
    \E p \in ParagraphIndexes : clearConversation(p)

StoreNext ==
    \/ StartExchangeStep
    \/ AddResponseStep
    \/ ClearConversationStep

SpecStore == StoreInit /\ [][StoreNext]_vars

(***************************************************************************)
(* POST /api/chat: the orchestrator.                                       *)
(***************************************************************************)
\* a property the request body does not carry
Undefined == "undefined"

Passages == {Undefined, "", "passage"}

\* `sourceId?: string` of a request: absent, or the id of a source
NoSourceId == 0

\* the `sources` a request can carry: absent, or up to MaxSources sources with
\* distinct ids, each with or without a usable fullText
SourceLists ==
    [defined : {FALSE}, list : {<<>>}] \cup
    [defined : {TRUE},
     list : UNION {[1..n -> [id : SourceIds, fullTextOk : BOOLEAN]] : n \in 0..MaxSources}]

\* Paper ids are unique; the sources of a request are named in the order of their ids
DistinctIds(sources) ==
    \A i \in 1..Len(sources) : sources[i].id = i

\* the text of a response a paper gave earlier
responseOf(sourceId) == <<"response", sourceId>>

\* the paper that gave a response
authorOf(response) == response[2]

\* `conversationHistory?: ConversationHistoryEntry[]` of a request: none, or
\* the earlier response of a paper
Histories ==
    {<<>>} \cup {<<[question |-> NoQuestion, response |-> responseOf(s)]>> : s \in SourceIds}

\* the client sends the history of the paper it names; a request that names
\* none carries the history of one of its sources
HistoryOfRequest(sources, sourceId, conversationHistory) ==
    \A k \in 1..Len(conversationHistory) :
        LET author == authorOf(conversationHistory[k].response)
        IN  /\ sourceId # NoSourceId => author = sourceId
            /\ \E i \in 1..Len(sources) : sources[i].id = author

(***************************************************************************)
(* The size gate (lib/llm.ts).  A text is modelled by what split(/\s+/)    *)
(* sees of it: its number of words and whether whitespace precedes the     *)
(* first and follows the last of them.  A text without words is empty, or  *)
(* `leading` tells that it consists of whitespace.                         *)
(***************************************************************************)
\* texts have up to SmallWords words, or between MaxWords - 2 and MaxWords words
SmallWords == 3
MaxWords == 666667
\* at most MaxTokenCalls calls of isWithinTokenLimit are made in one behaviour
MaxTokenCalls == 2

\* limit = 500000
DefaultLimit == 500000

WordCounts == (0..SmallWords) \cup ((MaxWords - 2)..MaxWords)
SizedTexts ==
    {t \in [words : WordCounts, leading : BOOLEAN, trailing : BOOLEAN] :
        t.words = 0 => ~t.trailing}
\* the limits passed: none (the default), or one above it
Limits == {DefaultLimit, DefaultLimit + 1}

\* the text is the empty string
isEmptyText(text) == text.words = 0 /\ ~text.leading

\* text.split(/\s+/).length: a text without words splits into one empty piece, or into two
\* when it is whitespace; whitespace before the first word and after the last word adds an
\* empty piece each
splitLength(text) ==
    IF text.words = 0
    THEN IF text.leading THEN 2 ELSE 1
    ELSE text.words + (IF text.leading THEN 1 ELSE 0) + (IF text.trailing THEN 1 ELSE 0)

\* estimateTokens: Math.ceil(words * 0.75)
estimateTokensFloor(text) == (3 * splitLength(text)) \div 4
estimateTokens(text) == (3 * splitLength(text) + 3) \div 4

\* isWithinTokenLimit
isWithinTokenLimitStrict(text, limit) == estimateTokens(text) < limit
isWithinTokenLimit(text, limit) == estimateTokens(text) <= limit

(***************************************************************************)
(* The user prompt of an agent (lib/prompts.ts, buildAgentUserPrompt).     *)
(* The prompt is modelled by the sequence of its sections, each holding    *)
(* what the code interpolates into it; the PREVIOUS ANALYSIS section holds *)
(* its lines in the order in which they are appended.                      *)
(***************************************************************************)
\* `fullText?: string`: a sequence that is empty when the argument is undefined
NoFullText == <<>>

\* if (question), if (entry.question): the string is given and not empty
isAsked(question) == question # NoQuestion /\ question # ""

fullTextSection(fullText) == [kind |-> "FULL TEXT OF SOURCE", fullText |-> fullText]
passageSection(passage) == [kind |-> "PASSAGE BEING DISCUSSED", passage |-> passage]
askedLine(question) == [label |-> "Reader asked", text |-> question]
responseLine(response) == [label |-> "Previous response", text |-> response]
previousAnalysisSection(lines) == [kind |-> "PREVIOUS ANALYSIS", lines |-> lines]
newQuestionSection(question) == [kind |-> "NEW QUESTION", question |-> question]
defaultPromptSection == [kind |-> "How does this text relate to the passage?"]

RECURSIVE historyLines(_, _)
\* for (const entry of conversationHistory): the lines appended from entry k on
historyLines(conversationHistory, k) ==
    IF k > Len(conversationHistory) THEN <<>>
    ELSE (IF isAsked(conversationHistory[k].question)
          THEN <<askedLine(conversationHistory[k].question)>>
          ELSE <<>>)
         \o <<responseLine(conversationHistory[k].response)>>
         \o historyLines(conversationHistory, k + 1)

RECURSIVE historyLinesReversed(_, _)
historyLinesReversed(conversationHistory, k) ==
    IF k > Len(conversationHistory) THEN <<>>
    ELSE historyLinesReversed(conversationHistory, k + 1)
         \o (IF isAsked(conversationHistory[k].question)
             THEN <<askedLine(conversationHistory[k].question)>>
             ELSE <<>>)
         \o <<responseLine(conversationHistory[k].response)>>

\* the last lines of buildAgentUserPrompt: NEW QUESTION, the default prompt, or nothing
instructionAlways(question, conversationHistory) ==
    IF isAsked(question) THEN <<newQuestionSection(question)>> ELSE <<defaultPromptSection>>
instruction(question, conversationHistory) ==
    IF isAsked(question) THEN <<newQuestionSection(question)>>
    ELSE IF Len(conversationHistory) = 0 THEN <<defaultPromptSection>>
    ELSE <<>>

\* buildAgentUserPrompt
buildAgentUserPromptUnordered(passage, question, fullText, conversationHistory) ==
    <<passageSection(passage)>>
    \o (IF fullText # NoFullText /\ ~isEmptyText(fullText[1])
        THEN <<fullTextSection(fullText[1])>> ELSE <<>>)
    \o (IF Len(conversationHistory) > 0
        THEN <<previousAnalysisSection(historyLinesReversed(conversationHistory, 1))>> ELSE <<>>)
    \o instruction(question, conversationHistory)
buildAgentUserPrompt(passage, question, fullText, conversationHistory) ==
    (IF fullText # NoFullText /\ ~isEmptyText(fullText[1])
     THEN <<fullTextSection(fullText[1])>> ELSE <<>>)
    \o <<passageSection(passage)>>
    \o (IF Len(conversationHistory) > 0
        THEN <<previousAnalysisSection(historyLines(conversationHistory, 1))>> ELSE <<>>)
    \o instruction(question, conversationHistory)

\* the responses of the PREVIOUS ANALYSIS section of a prompt, in order
RECURSIVE responsesIn(_, _)
responsesIn(lines, k) ==
    IF k > Len(lines) THEN <<>>
    ELSE (IF lines[k].label = "Previous response" THEN <<lines[k].text>> ELSE <<>>)
         \o responsesIn(lines, k + 1)

previousAnalysis(prompt) ==
    IF \E k \in 1..Len(prompt) : prompt[k].kind = "PREVIOUS ANALYSIS"
    THEN responsesIn(prompt[CHOOSE k \in 1..Len(prompt) : prompt[k].kind = "PREVIOUS ANALYSIS"].lines, 1)
    ELSE <<>>

\* `context ? ... : question` of the chat handler
NoContext == "undefined"
respondTo(context) == "Respond to this comment from another source: comment"

\* the userPrompt the chat handler builds for a source
agentUserPromptAlwaysFull(passage, question, context, fullText, conversationHistory) ==
    buildAgentUserPrompt(passage,
        IF context # NoContext /\ context # "" THEN respondTo(context) ELSE question,
        <<fullText>>, conversationHistory)
agentUserPrompt(passage, question, context, fullText, conversationHistory) ==
    LET includeFullText == isWithinTokenLimit(fullText, DefaultLimit) IN
    buildAgentUserPrompt(passage,
        IF context # NoContext /\ context # "" THEN respondTo(context) ELSE question,
        IF includeFullText THEN <<fullText>> ELSE NoFullText,
        conversationHistory)

startEvent(sourceId) == [type |-> "start", sourceId |-> sourceId]

chunkEventOfFirstTarget(sourceId, text) ==
    [type |-> "chunk", sourceId |-> targetSources[1].id, content |-> text]

chunkEvent(sourceId, text) == [type |-> "chunk", sourceId |-> sourceId, content |-> text]

doneEvent(sourceId) == [type |-> "done", sourceId |-> sourceId]

errorEvent(sourceId) ==
    [type |-> "error", sourceId |-> sourceId, error |-> "Failed to generate response"]

completeEvent == [type |-> "complete"]

\* safeEnqueue on out = [channel, closed]: controller.enqueue throws once the
\* stream is no longer readable
safeEnqueue(out, data) ==
    IF ~out.closed
    THEN IF controller = "readable"
         THEN [out EXCEPT !.channel = Append(@, data)]
         ELSE [out EXCEPT !.closed = TRUE]
    ELSE out

\* sourceId ? sources.filter(s => s.id === sourceId) : sources
filterTargets(sources, sourceId) ==
    IF sourceId # NoSourceId
    THEN SelectSeq(sources.list, LAMBDA src : src.id = sourceId)
    ELSE sources.list

RECURSIVE launch(_, _, _)
\* targetSources.map(async (source) => ...) up to each task's first await:
\* the start event, then the prompts (estimateTokens throws on a source without
\* fullText, which the task's catch turns into its error event), then the call
\* of the LLM client
launch(targets, i, out) ==
    IF i > Len(targets) THEN out
    ELSE LET started == safeEnqueue(out, startEvent(targets[i].id))
         IN  IF targets[i].fullTextOk
             THEN launch(targets, i + 1,
                         [started EXCEPT !.pc = Append(@, "streaming"),
                                         !.calls = @ + 1])
             ELSE launch(targets, i + 1,
                         [safeEnqueue(started, errorEvent(targets[i].id))
                             EXCEPT !.pc = Append(@, "error")])

\* the Response of the chat handler that starts no stream, 200 when it starts one
chatStatus(passage, sources, sourceId) ==
    IF passage = Undefined \/ ~sources.defined
    THEN 500    \* passage.slice / sources.length throw, the outer catch answers
    ELSE IF passage = "" \/ Len(sources.list) = 0
    THEN 400
    ELSE IF Len(filterTargets(sources, sourceId)) = 0
    THEN 404
    ELSE 200

ChatPOST(passage, sources, sourceId, conversationHistory) ==
    /\ handler = "idle"
    /\ request' = [route |-> "chat", passage |-> passage, sources |-> sources,
                   sourceId |-> sourceId, conversationHistory |-> conversationHistory]
    /\ status' = chatStatus(passage, sources, sourceId)
    /\ IF chatStatus(passage, sources, sourceId) = 200
       THEN LET targets == filterTargets(sources, sourceId)
                out == launch(targets, 1,
                              [channel |-> <<>>, closed |-> FALSE, pc |-> <<>>, calls |-> 0])
            IN  /\ targetSources' = targets
                /\ channel' = out.channel
                /\ closed' = out.closed
                /\ pc' = out.pc
                /\ llmCalls' = out.calls
                /\ generated' = [i \in 1..Len(targets) |-> <<>>]
                /\ handler' = "streaming"
       ELSE /\ handler' = "responded"
            /\ UNCHANGED <<targetSources, channel, closed, pc, llmCalls, generated>>
    /\ UNCHANGED <<deltas, controller, startRejected, responseBody, llmText>>
    /\ UNCHANGED <<storeVars, pageVars, libVars>>

\* streamContent: if (text) yield text
streamContentYields(text) == text # ""

\* the provider streams one more delta to the agent of target i
ProviderDelta(i, text) ==
    /\ handler = "streaming"
    /\ pc[i] = "streaming"
    /\ deltas < MaxDeltas
    /\ deltas' = deltas + 1
    /\ IF streamContentYields(text)
       THEN /\ generated' = [generated EXCEPT ![i] = Append(@, text)]
            /\ IF text # ""
               THEN LET out == safeEnqueue([channel |-> channel, closed |-> closed],
                                           chunkEvent(targetSources[i].id, text))
                    IN  channel' = out.channel /\ closed' = out.closed
               ELSE UNCHANGED <<channel, closed>>
       ELSE UNCHANGED <<generated, channel, closed>>
    /\ UNCHANGED <<request, status, targetSources, pc, controller, handler,
                   startRejected, llmCalls, responseBody, llmText>>
    /\ UNCHANGED <<storeVars, pageVars, libVars>>

\* the stream of target i ends and the catch block runs all the same
ProviderEndThenCatch(i) ==
    /\ handler = "streaming"
    /\ pc[i] = "streaming"
    /\ LET out == safeEnqueue(safeEnqueue([channel |-> channel, closed |-> closed],
                                          doneEvent(targetSources[i].id)),
                              errorEvent(targetSources[i].id))
       IN  channel' = out.channel /\ closed' = out.closed
    /\ pc' = [pc EXCEPT ![i] = "done"]
    /\ UNCHANGED <<request, status, targetSources, generated, deltas, controller,
                   handler, startRejected, llmCalls, responseBody, llmText>>
    /\ UNCHANGED <<storeVars, pageVars, libVars>>

\* the provider's stream of target i ends
ProviderEnd(i) ==
    /\ handler = "streaming"
    /\ pc[i] = "streaming"
    /\ LET out == safeEnqueue([channel |-> channel, closed |-> closed],
                              doneEvent(targetSources[i].id))
       IN  channel' = out.channel /\ closed' = out.closed
    /\ pc' = [pc EXCEPT ![i] = "done"]
    /\ UNCHANGED <<request, status, targetSources, generated, deltas, controller,
                   handler, startRejected, llmCalls, responseBody, llmText>>
    /\ UNCHANGED <<storeVars, pageVars, libVars>>

ProviderFailUncaught(i) ==
    /\ handler = "streaming"
    /\ pc[i] = "streaming"
    /\ pc' = [pc EXCEPT ![i] = "error"]
    /\ UNCHANGED <<request, status, targetSources, generated, deltas, channel, closed,
                   controller, handler, startRejected, llmCalls, responseBody, llmText>>
    /\ UNCHANGED <<storeVars, pageVars, libVars>>

\* the LLM call of target i throws, at its creation or in mid-stream
ProviderFail(i) ==
    /\ handler = "streaming"
    /\ pc[i] = "streaming"
    /\ LET out == safeEnqueue([channel |-> channel, closed |-> closed],
                              errorEvent(targetSources[i].id))
       IN  channel' = out.channel /\ closed' = out.closed
    /\ pc' = [pc EXCEPT ![i] = "error"]
    /\ UNCHANGED <<request, status, targetSources, generated, deltas, controller,
                   handler, startRejected, llmCalls, responseBody, llmText>>
    /\ UNCHANGED <<storeVars, pageVars, libVars>>

promiseRace(tasks) == \E i \in 1..Len(tasks) : tasks[i] \in {"done", "error"}

\* await Promise.all(promises): no task rejects, so it waits for every task
promiseAll(tasks) == \A i \in 1..Len(tasks) : tasks[i] \in {"done", "error"}

\* after the join: the complete event, closed = true, controller.close()
Finish ==
    /\ handler = "streaming"
    /\ promiseAll(pc)
    /\ LET out == safeEnqueue([channel |-> channel, closed |-> closed], completeEvent)
       IN  channel' = out.channel
    /\ closed' = TRUE
    /\ IF controller = "readable"
       THEN controller' = "closed" /\ UNCHANGED startRejected
       ELSE startRejected' = TRUE /\ UNCHANGED controller   \* close() throws a TypeError
    /\ handler' = "finished"
    /\ UNCHANGED <<request, status, targetSources, pc, generated, deltas, llmCalls,
                   responseBody, llmText>>
    /\ UNCHANGED <<storeVars, pageVars, libVars>>

\* the consumer goes away: the stream is cancelled
Disconnect ==
    /\ handler = "streaming"
    /\ controller = "readable"
    /\ controller' = "cancelled"
    /\ UNCHANGED <<request, status, targetSources, pc, generated, deltas, channel,
                   closed, handler, startRejected, llmCalls, responseBody, llmText>>
    /\ UNCHANGED <<storeVars, pageVars, libVars>>

ChatPOSTStep ==
    /\ handler = "idle"
    /\ \E passage \in Passages, sources \in SourceLists, sourceId \in {NoSourceId} \cup SourceIds,
          conversationHistory \in Histories :
        /\ DistinctIds(sources.list)
        /\ HistoryOfRequest(sources.list, sourceId, conversationHistory)
        /\ ChatPOST(passage, sources, sourceId, conversationHistory)

ProviderDeltaStep ==
    /\ handler = "streaming"
    /\ \E i \in 1..Len(pc), text \in DeltaTexts : ProviderDelta(i, text)

ProviderEndStep == \E i \in 1..Len(pc) : ProviderEnd(i)

ProviderFailStep == \E i \in 1..Len(pc) : ProviderFail(i)


(***************************************************************************)
(* POST /api/prefilter.                                                    *)
(***************************************************************************)
VALID_ENGAGEMENT_TYPES ==
    {"affirms", "extends", "challenges", "complicates", "evidence", "reframes",
     "contextualizes"}

\* elements of the JSON array an LLM answer can hold: a bare id string, or an
\* object with or without sourceId, type and angle
\* An id is a source id; it is the id of a candidate only when the request
\* carries a source with it. NoSourceId stands for an absent sourceId.
ArrayEntries ==
    [kind : {"string"}, value : SourceIds] \cup
    [kind : {"object"}, sourceId : {NoSourceId} \cup SourceIds,
     type : {Undefined, "challenges", "disputes"}, angle : {Undefined, "an angle"}]

\* an object standing where an id string is expected: the id of no paper
ObjectAsId == MaxSources + 1

\* the value the old-format branch takes for the id of an element of parsed
idOf(entry) == IF entry.kind = "string" THEN entry.value ELSE ObjectAsId

\* the LLM answers: text without a [...] match, a match JSON.parse rejects, or
\* a parseable array
PrefilterTexts ==
    [array : {"none", "malformed"}] \cup
    [array : {"parsed"}, items : UNION {[1..n -> ArrayEntries] : n \in 0..2}]

\* the engagement an old-format entry is upgraded to
upgradedAsAffirms(entry) ==
    [sourceId |-> idOf(entry), type |-> "affirms", angle |-> "has relevant perspective"]

upgraded(entry) ==
    [sourceId |-> idOf(entry), type |-> "contextualizes", angle |-> "has relevant perspective"]

\* e.sourceId && e.type && VALID_ENGAGEMENT_TYPES.includes(e.type)
keeps(entry) ==
    /\ entry.kind = "object"
    /\ entry.sourceId # NoSourceId
    /\ entry.type \in VALID_ENGAGEMENT_TYPES

engagementOf(entry) ==
    [sourceId |-> entry.sourceId, type |-> entry.type,
     angle |-> IF entry.angle = Undefined THEN "has relevant perspective" ELSE entry.angle]

\* the body the prefilter handler answers with, from the LLM's text
prefilterBody(text) ==
    IF text.array # "parsed"
    THEN [engagedSourceIds |-> <<>>, engagements |-> <<>>]
    ELSE IF Len(text.items) > 0 /\ text.items[1].kind = "string"
    THEN [engagedSourceIds |-> [i \in 1..Len(text.items) |-> idOf(text.items[i])],
          engagements |-> [i \in 1..Len(text.items) |-> upgraded(text.items[i])]]
    ELSE LET kept == SelectSeq(text.items, keeps)
         IN  [engagedSourceIds |-> [i \in 1..Len(kept) |-> kept[i].sourceId],
              engagements |-> [i \in 1..Len(kept) |-> engagementOf(kept[i])]]

\* !passage || !sources || sources.length === 0
prefilterRejects(passage, sources) ==
    \/ passage = Undefined \/ passage = ""
    \/ ~sources.defined
    \/ Len(sources.list) = 0

PrefilterPOST(passage, sources) ==
    /\ handler = "idle"
    /\ request' = [route |-> "prefilter", passage |-> passage, sources |-> sources,
                   sourceId |-> NoSourceId]
    /\ IF prefilterRejects(passage, sources)
       THEN /\ status' = 400
            /\ handler' = "responded"
            /\ UNCHANGED llmCalls
       ELSE /\ handler' = "prefiltering"      \* await generateContent(...)
            /\ llmCalls' = llmCalls + 1
            /\ UNCHANGED status
    /\ UNCHANGED <<targetSources, pc, generated, deltas, channel, controller, closed,
                   startRejected, responseBody, llmText>>
    /\ UNCHANGED <<storeVars, pageVars, libVars>>

\* generateContent throws: the outer catch answers 500
PrefilterLLMFails ==
    /\ handler = "prefiltering"
    /\ status' = 500
    /\ handler' = "responded"
    /\ UNCHANGED <<request, targetSources, pc, generated, deltas, channel, controller,
                   closed, startRejected, llmCalls, responseBody, llmText>>
    /\ UNCHANGED <<storeVars, pageVars, libVars>>

PrefilterLLMReturnsOrThrows(text) ==
    /\ handler = "prefiltering"
    /\ status' = IF text.array = "parsed" THEN 200 ELSE 500
    /\ responseBody' = IF text.array = "parsed" THEN prefilterBody(text) ELSE responseBody
    /\ llmText' = text
    /\ handler' = "responded"
    /\ UNCHANGED <<request, targetSources, pc, generated, deltas, channel, controller,
                   closed, startRejected, llmCalls>>
    /\ UNCHANGED <<storeVars, pageVars, libVars>>

\* generateContent returns text
PrefilterLLMReturns(text) ==
    /\ handler = "prefiltering"
    /\ status' = 200
    /\ responseBody' = prefilterBody(text)
    /\ llmText' = text
    /\ handler' = "responded"
    /\ UNCHANGED <<request, targetSources, pc, generated, deltas, channel, controller,
                   closed, startRejected, llmCalls>>
    /\ UNCHANGED <<storeVars, pageVars, libVars>>

PrefilterPOSTStep ==
    /\ handler = "idle"
    /\ \E passage \in Passages, sources \in SourceLists :
        /\ DistinctIds(sources.list)
        /\ PrefilterPOST(passage, sources)

PrefilterLLMReturnsStep ==
    /\ handler = "prefiltering"
    /\ \E text \in PrefilterTexts : PrefilterLLMReturns(text)

ChatInit == EmptyStore /\ NoRequest /\ NoPage /\ NoLibrary /\ NoCalls

ChatNext ==
    \/ ChatPOSTStep
    \/ ProviderDeltaStep
    \/ ProviderEndStep
    \/ ProviderFailStep
    \/ Finish
    \/ Disconnect
    \/ PrefilterPOSTStep
    \/ PrefilterLLMFails
    \/ PrefilterLLMReturnsStep

SpecChat == ChatInit /\ [][ChatNext]_vars


(***************************************************************************)
(* The page (src/app/page.tsx): selecting a paragraph, the prefilter cache *)
(* (engagements), generateSingleResponse and its consumption of the chat   *)
(* stream, clear & refresh, and the document scan.                         *)
(***************************************************************************)
\* the content of a chunk event: the n-th chunk the server sends for a call
piece(c, n) == [call |-> c, n |-> n]

\* 'Failed to generate response'
FailureMarker == <<[call |-> 0, n |-> 0]>>

RECURSIVE loadedResponses(_, _)
\* loadConversationResponses: one slot per stored response, exchange by exchange
loadedResponses(exchanges, i) ==
    IF i > Len(exchanges) THEN <<>>
    ELSE [k \in 1..Len(exchanges[i].responses) |->
             [sourceId |-> exchanges[i].responses[k].sourceId,
              content |-> exchanges[i].responses[k].content,
              done |-> TRUE,
              call |-> exchanges[i].responses[k].content[1].call]]
         \o loadedResponses(exchanges, i + 1)

loadConversationResponses(index) == loadedResponses(exchangesOf(index), 1)

\* the source ids of the responses stored for a paragraph
respondersIn(conversations, paragraphIndex) ==
    LET exchanges == exchangesAmong(conversations, paragraphIndex)
    IN  {exchanges[i].responses[k].sourceId :
            <<i, k>> \in {ik \in (1..Len(exchanges)) \X (1..MaxCalls) :
                             ik[2] <= Len(exchanges[ik[1]].responses)}}

\* the effect on savedConversations: papers that responded get an engagement entry
mergeResponders(engs, conversations) ==
    [p \in DOMAIN engs |->
        IF respondersIn(conversations, p) \ engs[p].ids # {}
        THEN [cached |-> TRUE, ids |-> engs[p].ids \cup respondersIn(conversations, p)]
        ELSE engs[p]]

\* fetchEngagement(paragraphIndex, passage, force), called by `by`; wasCached tells
\* whether a result for the paragraph was cached when the handler was entered
fetchEngagement(paragraphIndex, force, by, wasCached) ==
    IF ~force /\ engagements[paragraphIndex].cached
    THEN UNCHANGED <<fetching, fetchCount, refetches>>
    ELSE /\ fetchCount < MaxFetches
         /\ fetching' = [fetching EXCEPT ![paragraphIndex] = @ + 1]
         /\ fetchCount' = fetchCount + 1
         /\ refetches' = IF wasCached THEN refetches \cup {by} ELSE refetches

handleSelectParagraph(index) ==
    /\ selectedParagraphIndex' = index
    /\ responses' = loadConversationResponses(index)
    /\ IF isHeader(index)
       THEN UNCHANGED <<fetching, fetchCount, refetches>>
       ELSE fetchEngagement(index, FALSE, "select", engagements[index].cached)
    /\ UNCHANGED <<calls, engagements, scan>>
    /\ UNCHANGED <<storeVars, chatVars, libVars>>

\* a flag of paragraph paragraphIndex is shown for every entry of its engagements
handleClickSourceFlag(paragraphIndex, paperId, t, r) ==
    /\ Len(calls) < MaxCalls
    /\ ~isHeader(paragraphIndex)
    /\ paperId \in engagements[paragraphIndex].ids
    /\ selectedParagraphIndex' = paragraphIndex
    /\ responses' = loadConversationResponses(paragraphIndex)
    /\ fetchEngagement(paragraphIndex, FALSE, "flag", engagements[paragraphIndex].cached)
    /\ LET res == addExchangeToParagraph(paragraphIndex, ParagraphTextOf(paragraphIndex),
                                         NoQuestion, t, r)
       IN  /\ localStorage' = res.saved
           /\ now' = t
           /\ calls' = Append(calls, [paperId |-> paperId, paragraphIndex |-> paragraphIndex,
                                      exchangeId |-> res.exchange.id, finalContent |-> <<>>,
                                      stream |-> "scheduled"])
           /\ engagements' = mergeResponders(engagements, getItem(res.saved))
    /\ UNCHANGED scan
    /\ UNCHANGED <<returned, issued, lastOp, ops, chatVars, libVars>>

\* generateSingleResponse up to its fetch of /api/chat: the placeholder slot
generateSingleResponse(c) ==
    /\ calls[c].stream = "scheduled"
    /\ responses' = Append(responses, [sourceId |-> calls[c].paperId, content |-> <<>>,
                                       done |-> FALSE, call |-> c])
    /\ calls' = [calls EXCEPT ![c].stream = "streaming"]
    /\ UNCHANGED <<selectedParagraphIndex, engagements, fetching, fetchCount, refetches, scan>>
    /\ UNCHANGED <<storeVars, chatVars, libVars>>

\* prev.map(r => r.sourceId === data.sourceId && !r.done ? {...r, content: r.content + data.content} : r)
appendChunk(slots, data) ==
    [k \in 1..Len(slots) |->
        IF slots[k].sourceId = data.sourceId /\ ~slots[k].done
        THEN [slots[k] EXCEPT !.content = Append(@, data.content)]
        ELSE slots[k]]

\* prev.map(r => r.sourceId === data.sourceId && !r.done ? {...r, done: true} : r)
markDone(slots, data) ==
    [k \in 1..Len(slots) |->
        IF slots[k].sourceId = data.sourceId /\ ~slots[k].done
        THEN [slots[k] EXCEPT !.done = TRUE]
        ELSE slots[k]]

\* prev.map(r => r.sourceId === id && !r.done ? {...r, content: 'Failed to generate response', done: true} : r)
markFailed(slots, sourceId) ==
    [k \in 1..Len(slots) |->
        IF slots[k].sourceId = sourceId /\ ~slots[k].done
        THEN [slots[k] EXCEPT !.content = FailureMarker, !.done = TRUE]
        ELSE slots[k]]

RECURSIVE chunksRead(_)
\* the number of chunk events read by the calls 1..c
chunksRead(c) == IF c = 0 THEN 0 ELSE Len(calls[c].finalContent) + chunksRead(c - 1)

\* the reader of call c reads a chunk event
StreamChunk(c) ==
    /\ calls[c].stream = "streaming"
    /\ chunksRead(Len(calls)) < MaxChunks
    /\ LET data == chunkEvent(calls[c].paperId, piece(c, Len(calls[c].finalContent) + 1))
       IN  /\ calls' = [calls EXCEPT ![c].finalContent = Append(@, data.content)]
           /\ responses' = appendChunk(responses, data)
    /\ UNCHANGED <<selectedParagraphIndex, engagements, fetching, fetchCount, refetches, scan>>
    /\ UNCHANGED <<storeVars, chatVars, libVars>>

\* the done event is read again and again
StreamDoneRepeats(c, t) ==
    /\ calls[c].stream = "streaming"
    /\ now' = t
    /\ responses' = markDone(responses, doneEvent(calls[c].paperId))
    /\ IF calls[c].finalContent # <<>>
       THEN localStorage' = addResponseToExchange(calls[c].paragraphIndex, calls[c].exchangeId,
                                [sourceId |-> calls[c].paperId,
                                 content |-> calls[c].finalContent], t)
       ELSE UNCHANGED localStorage
    /\ engagements' = mergeResponders(engagements, getItem(localStorage'))
    /\ UNCHANGED <<calls, selectedParagraphIndex, fetching, fetchCount, refetches, scan>>
    /\ UNCHANGED <<returned, issued, lastOp, ops, chatVars, libVars>>

\* the done event is stored for the paragraph that is selected when it is read
StreamDoneAtSelection(c, t) ==
    /\ calls[c].stream = "streaming"
    /\ responses' = markDone(responses, doneEvent(calls[c].paperId))
    /\ calls' = [calls EXCEPT ![c].stream = "done"]
    /\ IF calls[c].finalContent # <<>>
       THEN /\ now' = t
            /\ localStorage' = addResponseToExchange(selectedParagraphIndex,
                                   calls[c].exchangeId,
                                   [sourceId |-> calls[c].paperId,
                                    content |-> calls[c].finalContent], t)
            /\ engagements' = mergeResponders(engagements, getItem(localStorage'))
       ELSE UNCHANGED <<now, localStorage, engagements>>
    /\ UNCHANGED <<selectedParagraphIndex, fetching, fetchCount, refetches, scan>>
    /\ UNCHANGED <<returned, issued, lastOp, ops, chatVars, libVars>>

\* the reader of call c reads the done event; the server sends nothing after it
StreamDone(c, t) ==
    /\ calls[c].stream = "streaming"
    /\ responses' = markDone(responses, doneEvent(calls[c].paperId))
    /\ calls' = [calls EXCEPT ![c].stream = "done"]
    /\ IF calls[c].finalContent # <<>>
       THEN /\ now' = t
            /\ localStorage' = addResponseToExchange(calls[c].paragraphIndex,
                                   calls[c].exchangeId,
                                   [sourceId |-> calls[c].paperId,
                                    content |-> calls[c].finalContent], t)
            /\ engagements' =
                   mergeResponders(engagements,
                       getItem(addResponseToExchange(calls[c].paragraphIndex,
                                   calls[c].exchangeId,
                                   [sourceId |-> calls[c].paperId,
                                    content |-> calls[c].finalContent], t)))
       ELSE UNCHANGED <<now, localStorage, engagements>>
    /\ UNCHANGED <<selectedParagraphIndex, fetching, fetchCount, refetches, scan>>
    /\ UNCHANGED <<returned, issued, lastOp, ops, chatVars, libVars>>

\* the reader of call c reads the error event
StreamError(c) ==
    /\ calls[c].stream = "streaming"
    /\ responses' = markFailed(responses, errorEvent(calls[c].paperId).sourceId)
    /\ calls' = [calls EXCEPT ![c].stream = "error"]
    /\ UNCHANGED <<selectedParagraphIndex, engagements, fetching, fetchCount, refetches, scan>>
    /\ UNCHANGED <<storeVars, chatVars, libVars>>

\* catch: fetch rejected, the response was not ok, or the read failed
StreamThrows(c) ==
    /\ calls[c].stream = "streaming"
    /\ responses' = markFailed(responses, calls[c].paperId)
    /\ calls' = [calls EXCEPT ![c].stream = "failed"]
    /\ UNCHANGED <<selectedParagraphIndex, engagements, fetching, fetchCount, refetches, scan>>
    /\ UNCHANGED <<storeVars, chatVars, libVars>>

\* a prefilter call of fetchEngagement answers ok: updateEngagement(paragraphIndex, entries)
PrefilterResolves(paragraphIndex, ids) ==
    /\ fetching[paragraphIndex] > 0
    /\ fetching' = [fetching EXCEPT ![paragraphIndex] = @ - 1]
    /\ engagements' = [engagements EXCEPT ![paragraphIndex] = [cached |-> TRUE, ids |-> ids]]
    /\ UNCHANGED <<selectedParagraphIndex, responses, calls, fetchCount, refetches, scan>>
    /\ UNCHANGED <<storeVars, chatVars, libVars>>

\* a prefilter call of fetchEngagement fails: console.error
PrefilterFails(paragraphIndex) ==
    /\ fetching[paragraphIndex] > 0
    /\ fetching' = [fetching EXCEPT ![paragraphIndex] = @ - 1]
    /\ UNCHANGED <<selectedParagraphIndex, responses, calls, engagements, fetchCount,
                   refetches, scan>>
    /\ UNCHANGED <<storeVars, chatVars, libVars>>

handleClearAndRefresh ==
    /\ selectedParagraphIndex # NoSelection
    /\ localStorage' = clearParagraphConversation(selectedParagraphIndex)
    /\ responses' = <<>>
    /\ engagements' =
           mergeResponders([engagements EXCEPT ![selectedParagraphIndex] = NotCached],
                           getItem(clearParagraphConversation(selectedParagraphIndex)))
    /\ fetchEngagement(selectedParagraphIndex, TRUE, "refresh",
                       engagements[selectedParagraphIndex].cached)
    /\ UNCHANGED <<selectedParagraphIndex, calls, scan>>
    /\ UNCHANGED <<now, returned, issued, lastOp, ops, chatVars, libVars>>

\* the paragraphs of the batch starting at `start` the scan calls the prefilter for:
\* not a header, and not in the engagements the scan captured
batchFetches(start, snapshot) ==
    {i \in DOMAIN paragraphTypes :
        /\ start <= i /\ i < start + batchSize
        /\ ~isHeader(i)
        /\ i \notin snapshot}

RECURSIVE scanFrom(_, _)
\* the for loop over batches, up to the first batch that awaits a prefilter call
scanFrom(start, snapshot) ==
    IF start >= Cardinality(DOMAIN paragraphTypes)
    THEN [phase |-> "idle", snapshot |-> {}, next |-> 0, pending |-> {}]
    ELSE IF batchFetches(start, snapshot) = {}
         THEN scanFrom(start + batchSize, snapshot)
         ELSE [phase |-> "running", snapshot |-> snapshot, next |-> start,
               pending |-> batchFetches(start, snapshot)]

\* the scan goes on to `to`: the prefilter calls it issues
scanIssues(to) ==
    /\ fetchCount + Cardinality(to.pending) <= MaxFetches
    /\ fetchCount' = fetchCount + Cardinality(to.pending)
    /\ refetches' = IF \E i \in to.pending : engagements'[i].cached
                    THEN refetches \cup {"scan"} ELSE refetches
    /\ scan' = to

scanDocumentEngagements ==
    /\ scan.phase = "idle"
    /\ UNCHANGED <<selectedParagraphIndex, responses, calls, engagements, fetching>>
    /\ scanIssues(scanFrom(0, {i \in DOMAIN engagements : engagements[i].cached}))
    /\ UNCHANGED <<storeVars, chatVars, libVars>>

\* a prefilter call of the scan answers; after the last of a batch the loop goes on
ScanFetchResolves(paragraphIndex, ok, ids) ==
    /\ scan.phase = "running"
    /\ paragraphIndex \in scan.pending
    /\ engagements' = IF ok THEN [engagements EXCEPT ![paragraphIndex] =
                                     [cached |-> TRUE, ids |-> ids]]
                      ELSE engagements
    /\ IF scan.pending = {paragraphIndex}
       THEN scanIssues(scanFrom(scan.next + batchSize, scan.snapshot))
       ELSE /\ scan' = [scan EXCEPT !.pending = @ \ {paragraphIndex}]
            /\ UNCHANGED <<fetchCount, refetches>>
    /\ UNCHANGED <<selectedParagraphIndex, responses, calls, fetching>>
    /\ UNCHANGED <<storeVars, chatVars, libVars>>

\* the page after a scan of the document in which every paper engages with every
\* paragraph that is not a header
ScannedPage ==
    /\ selectedParagraphIndex = NoSelection
    /\ responses = <<>>
    /\ calls = <<>>
    /\ engagements = [i \in DOMAIN paragraphTypes |->
                         IF isHeader(i) THEN NotCached ELSE [cached |-> TRUE, ids |-> Papers]]
    /\ fetching = [i \in DOMAIN paragraphTypes |-> 0]
    /\ fetchCount = 0
    /\ refetches = {}
    /\ scan = [phase |-> "idle", snapshot |-> {}, next |-> 0, pending |-> {}]

PageInit == EmptyStore /\ NoRequest /\ ScannedPage /\ NoLibrary /\ NoCalls

\* the reading of Date.now() at the next click: clicks are at different milliseconds
PageClock == {now + 1}

\* Flags are clicked, which selects their paragraph, and the streams are read. The
\* first flag clicked is that of p1 on paragraph 1: papers and paragraphs that are
\* not headers are interchangeable here.
PageNext ==
    \/ \E paragraphIndex \in DOMAIN paragraphTypes, paperId \in Papers, t \in PageClock :
          /\ calls = <<>> => paragraphIndex = 1 /\ paperId = "p1"
          /\ handleClickSourceFlag(paragraphIndex, paperId, t, "r1")
    \/ \E c \in 1..Len(calls) : generateSingleResponse(c)
    \/ \E c \in 1..Len(calls) : StreamChunk(c)
    \/ \E c \in 1..Len(calls) : StreamDone(c, now)
    \/ \E c \in 1..Len(calls) : StreamError(c)
    \/ \E c \in 1..Len(calls) : StreamThrows(c)

\* the page while responses are asked for and streamed
SpecPage == PageInit /\ [][PageNext]_vars

ScanNext ==
    \/ \E index \in DOMAIN paragraphTypes : handleSelectParagraph(index)
    \/ \E paragraphIndex \in DOMAIN paragraphTypes, ids \in SUBSET Papers :
          PrefilterResolves(paragraphIndex, ids)
    \/ \E paragraphIndex \in DOMAIN paragraphTypes : PrefilterFails(paragraphIndex)
    \/ handleClearAndRefresh
    \/ scanDocumentEngagements
    \/ \E paragraphIndex \in DOMAIN paragraphTypes, ok \in BOOLEAN, ids \in SUBSET Papers :
          ScanFetchResolves(paragraphIndex, ok, ids)

\* the page while paragraphs are selected, refreshed and the document is scanned
ScanInit == EmptyStore /\ NoRequest /\ NoPage /\ NoLibrary /\ NoCalls

SpecScan == ScanInit /\ [][ScanNext]_vars

(***************************************************************************)
(* Orchestrator and request validation: properties.                        *)
(***************************************************************************)
\* positions of the channel holding an event of the given type for sourceId
eventsOf(type, sourceId) ==
    {k \in 1..Len(channel) : channel[k].type = type /\ channel[k].sourceId = sourceId}

\* positions of the channel holding the terminal events of sourceId
terminalsOf(sourceId) == eventsOf("done", sourceId) \cup eventsOf("error", sourceId)

completePositions == {k \in 1..Len(channel) : channel[k].type = "complete"}

\* the texts of the chunk events the channel holds for sourceId, in channel order
chunkTexts(sourceId) ==
    LET chunks == SelectSeq(channel,
                            LAMBDA e : e.type = "chunk" /\ e.sourceId = sourceId)
    IN  [k \in 1..Len(chunks) |-> chunks[k].content]

\* C1: the complete event and the closing of the channel come only after every
\* target's task has ended, and after its terminal event on the channel.
C1_CompleteAfterJoin ==
    /\ (completePositions # {} \/ controller = "closed") =>
          \A i \in 1..Len(pc) : pc[i] \in {"done", "error"}
    /\ \A c \in completePositions :
          /\ c = Len(channel)
          /\ \A i \in 1..Len(targetSources) :
                \E k \in terminalsOf(targetSources[i].id) : k < c

\* C1 witness: two agents streamed a chunk each, then complete was sent.
C1_Witness ==
    /\ completePositions # {}
    /\ Len(targetSources) = 2
    /\ eventsOf("chunk", targetSources[1].id) # {}
    /\ eventsOf("chunk", targetSources[2].id) # {}

\* C2: when the handler has finished and the consumer stayed, the channel holds
\* exactly one terminal event per target, done for a task that ended and error
\* for one that failed; and once every task has ended the join can complete.
C2_OneTerminalPerTarget ==
    /\ (handler = "finished" /\ controller = "closed") =>
          /\ \A i \in 1..Len(targetSources) :
                /\ Cardinality(terminalsOf(targetSources[i].id)) = 1
                /\ Cardinality(eventsOf(pc[i], targetSources[i].id)) = 1
          /\ Cardinality({k \in 1..Len(channel) : channel[k].type \in {"done", "error"}})
                = Len(targetSources)
    /\ (handler = "streaming" /\ promiseAll(pc)) => ENABLED Finish

\* C2 witness: of two agents one failed after a chunk, and the other streamed a
\* chunk after that failure and ended with done.
C2_Witness ==
    /\ handler = "finished" /\ controller = "closed"
    /\ Len(targetSources) = 2
    /\ \E i, j \in 1..2 :
          /\ pc[i] = "error" /\ pc[j] = "done"
          /\ generated[i] # <<>>
          /\ \E e \in eventsOf("error", targetSources[i].id),
                c \in eventsOf("chunk", targetSources[j].id) : e < c

\* C3: the chunk events of a paper are the texts its agent generated, in
\* generation order: all of them while the consumer is there, a prefix of them
\* once it has gone; and no chunk event carries another id.
C3_ChunksInGenerationOrder ==
    /\ \A i \in 1..Len(targetSources) :
          /\ IsPrefix(chunkTexts(targetSources[i].id), generated[i])
          /\ controller # "cancelled" => chunkTexts(targetSources[i].id) = generated[i]
    /\ \A k \in 1..Len(channel) :
          channel[k].type = "chunk" =>
              \E i \in 1..Len(targetSources) : channel[k].sourceId = targetSources[i].id

\* C3 witness: the second of two agents streamed two different chunks, and the
\* first one failed in between.
C3_Witness ==
    /\ Len(targetSources) = 2
    /\ Len(generated[2]) = 2
    /\ generated[2][1] # generated[2][2]
    /\ chunkTexts(targetSources[2].id) = generated[2]
    /\ \E e \in eventsOf("error", targetSources[1].id) :
          \E c, d \in eventsOf("chunk", targetSources[2].id) : c < e /\ e < d

\* C4: once the channel is closed the handler only stops writing: the closed
\* flag is raised on a channel that is really closed, and no exception escapes
\* start(controller), whether from an agent task, the join or the final
\* complete and close.
C4_ClosedChannelIsHarmless ==
    /\ (closed /\ handler = "streaming") => controller = "cancelled"
    /\ ~startRejected

\* the request lacks its passage or its sources
structurallyInvalid ==
    \/ request.passage \in {Undefined, ""}
    \/ ~request.sources.defined
    \/ Len(request.sources.list) = 0

\* C5: a chat or prefilter request without passage or without sources is
\* answered 400 before any work: no agent task, no LLM call, no stream event.
C5_InvalidRequestRejected ==
    (request.route # "none" /\ structurallyInvalid) =>
        /\ status = 400
        /\ llmCalls = 0
        /\ channel = <<>>
        /\ pc = <<>>


(***************************************************************************)
(* Conversation store: properties.                                         *)
(***************************************************************************)
\* exchange f is exchange e with, at most, responses appended
ExchangeKept(e, f) ==
    /\ f.id = e.id
    /\ f.timestamp = e.timestamp
    /\ f.question = e.question
    /\ IsPrefix(e.responses, f.responses)

\* the exchanges old are still there in new, in place
ExchangesKept(old, new) ==
    /\ Len(old) <= Len(new)
    /\ \A i \in 1..Len(old) : ExchangeKept(old[i], new[i])

\* the exchanges of paragraphIndex before a step are still there after it, in place
ParagraphKept(paragraphIndex) ==
    ExchangesKept(exchangesIn(localStorage, paragraphIndex),
                  exchangesIn(localStorage', paragraphIndex))

\* C6: exchanges are append-only. Every step other than clear(paragraphIndex)
\* keeps every stored exchange and response of the paragraph, with the same id,
\* question and content and in the same relative order.
C6_AppendOnly ==
    [][\A p \in ParagraphIndexes :
          \/ lastOp'.op = "clearConversation" /\ lastOp'.paragraphIndex = p
          \/ ParagraphKept(p)]_vars

\* C6 witness: an exchange that already held a response was followed by a second
\* exchange, which got a response too.
C6_Witness ==
    \E p \in ParagraphIndexes :
        /\ Len(exchangesOf(p)) >= 2
        /\ exchangesOf(p)[1].responses # <<>>
        /\ exchangesOf(p)[2].responses # <<>>
        /\ lastOp.op = "addResponse"

questionsOf(h) == [i \in 1..Len(h) |-> h[i].question]

\* C7: the entries of historyFor(paragraphIndex, paperId) come in the order in
\* which their startExchange calls were issued: their questions are a
\* subsequence of the questions of the calls, in call order.
C7_HistoryInCallOrder ==
    LET cs == getParagraphConversations
    IN  \A p \in ParagraphIndexes, s \in Papers :
            IsSubseq(questionsOf(historyIn(cs, p, s)), issued[p])

\* C7 witness: two exchanges with different questions both hold a response of
\* the same paper, and the later exchange was answered first.
C7_Witness ==
    \E p \in ParagraphIndexes, s \in Papers :
        LET es == exchangesOf(p)
        IN  /\ Len(es) = 2
            /\ es[1].question # es[2].question
            /\ Len(es[1].responses) = 1 /\ Len(es[2].responses) = 1
            /\ es[1].responses[1].sourceId = s /\ es[2].responses[1].sourceId = s
            /\ es[2].responses[1].timestamp < es[1].responses[1].timestamp
            /\ Len(getSourceHistoryForParagraph(p, s)) = 2

\* C8: any two startExchange calls on a paragraph yield two stored exchanges
\* with distinct ids.
C8_DistinctExchangeIds ==
    \A p \in ParagraphIndexes :
        /\ Len(exchangesOf(p)) = Len(issued[p])
        /\ \A i, j \in 1..Len(exchangesOf(p)) :
              i # j => exchangesOf(p)[i].id # exchangesOf(p)[j].id

\* C9: clear(paragraphIndex) deletes the whole record. Right after it the
\* paragraph has no record and an empty history for every paper, and at all
\* times the exchanges stored for a paragraph are exactly those started since
\* its last clear.
C9_ClearDeletesRecord ==
    LET cs == getParagraphConversations
    IN  /\ lastOp.op = "clearConversation" =>
              /\ findConversation(cs, lastOp.paragraphIndex) = 0
              /\ \A s \in Papers : historyIn(cs, lastOp.paragraphIndex, s) = <<>>
        /\ \A p \in ParagraphIndexes :
              questionsOf(exchangesAmong(cs, p)) = issued[p]

\* C9 witness: a clear was applied to a paragraph that held two exchanges.
C9_Witness ==
    /\ lastOp.op = "clearConversation"
    /\ lastOp.before >= 2

\* every entry of history h is a response of paper s held by an exchange of es
OwnResponses(h, es, s) ==
    \A n \in 1..Len(h) :
        \E i \in 1..Len(es) :
            /\ es[i].question = h[n].question
            /\ \E k \in 1..Len(es[i].responses) :
                  /\ es[i].responses[k].sourceId = s
                  /\ es[i].responses[k].content = h[n].response

\* C10: every entry of historyFor(paragraphIndex, paperId) is a response of that
\* paper stored in that paragraph, paired with the question of its exchange.
C10_HistoryOnlyOwnResponses ==
    LET cs == getParagraphConversations
    IN  \A p \in ParagraphIndexes, s \in Papers :
            OwnResponses(historyIn(cs, p, s), exchangesAmong(cs, p), s)

\* C10 witness: one exchange holds responses of two papers with different texts,
\* another paragraph holds an exchange too, and the history of the paper that
\* answered second has its one entry.
C10_Witness ==
    \E p, q \in ParagraphIndexes, s, u \in Papers :
        /\ p # q /\ s # u
        /\ Len(exchangesOf(p)) >= 1
        /\ Len(exchangesOf(p)[1].responses) = 2
        /\ exchangesOf(p)[1].responses[1].sourceId = u
        /\ exchangesOf(p)[1].responses[2].sourceId = s
        /\ exchangesOf(p)[1].responses[1].content # exchangesOf(p)[1].responses[2].content
        /\ Len(getSourceHistoryForParagraph(p, s)) = 1
        /\ Len(exchangesOf(q)) >= 1

\* the record stored for a paragraph: 0 when it has none, else its text and exchanges
recordIn(item, paragraphIndex) ==
    LET conversations == getItem(item)
        i == findConversation(conversations, paragraphIndex)
    IN  IF i = 0 THEN <<>> ELSE <<conversations[i]>>

\* C11: operations are keyed by paragraph index. A startExchange, addResponse
\* or clear applied to paragraph i leaves the stored record of every other
\* paragraph as it was.
C11_OtherParagraphsUnchanged ==
    [][\A j \in ParagraphIndexes :
          j # lastOp'.paragraphIndex =>
              recordIn(localStorage', j) = recordIn(localStorage, j)]_vars

\* C11 witness: a paragraph holding an exchange was cleared while another
\* paragraph held an answered exchange.
C11_Witness ==
    /\ lastOp.op = "clearConversation"
    /\ lastOp.before >= 1
    /\ \E j \in ParagraphIndexes :
          /\ j # lastOp.paragraphIndex
          /\ Len(exchangesOf(j)) >= 1
          /\ exchangesOf(j)[1].responses # <<>>

\* the user prompt the handler builds for target i; the question and the full text, which
\* the request of this model does not carry, are left out of it
userPromptOf(i) ==
    buildAgentUserPrompt(request.passage, NoQuestion, NoFullText, request.conversationHistory)

\* C19: the PREVIOUS ANALYSIS block of the prompt built for a target holds only
\* earlier responses of that target's own paper, for every target of a request.
C19_HistoryOnlyOfOwnPaper ==
    (request.route = "chat" /\ status = 200) =>
        \A i \in 1..Len(targetSources) :
            targetSources[i].fullTextOk =>
                \A k \in 1..Len(previousAnalysis(userPromptOf(i))) :
                    authorOf(previousAnalysis(userPromptOf(i))[k]) = targetSources[i].id

(***************************************************************************)
(* Prefilter: properties.                                                  *)
(***************************************************************************)
\* the prefilter handler has answered with a result
prefilterAnswered ==
    request.route = "prefilter" /\ handler = "responded" /\ status = 200

\* the elements of the array parsed from the LLM's text
parsedItems == IF llmText.array = "parsed" THEN llmText.items ELSE <<>>

\* the ids of the candidate papers of the request
candidateIds == {request.sources.list[i].id : i \in 1..Len(request.sources.list)}

\* C15: every entry of the output has one of the seven canonical types, and
\* every entry of the output is an entry of the input with that canonical
\* type or an upgraded bare id: an input entry with a foreign or missing type
\* is not in the output under any type.
C15_OnlyCanonicalTypes ==
    prefilterAnswered =>
        \A k \in 1..Len(responseBody.engagements) :
            LET e == responseBody.engagements[k]
            IN  /\ e.type \in VALID_ENGAGEMENT_TYPES
                /\ \E i \in 1..Len(parsedItems) :
                      LET x == parsedItems[i]
                      IN  \/ /\ x.kind = "string"
                             /\ e.sourceId = x.value
                             /\ e.type = "contextualizes"
                          \/ /\ x.kind = "object"
                             /\ x.type \in VALID_ENGAGEMENT_TYPES
                             /\ e.sourceId = x.sourceId
                             /\ e.type = x.type

\* C16: every sourceId of the returned engagements and of engagedSourceIds is
\* the id of a candidate paper of the request.
C16_IdsAmongCandidates ==
    prefilterAnswered =>
        /\ \A k \in 1..Len(responseBody.engagements) :
              responseBody.engagements[k].sourceId \in candidateIds
        /\ \A k \in 1..Len(responseBody.engagedSourceIds) :
              responseBody.engagedSourceIds[k] \in candidateIds

\* C17: when the LLM's text holds no JSON array, or the array found does not
\* parse, the prefilter answers 200 with no engagements and no engaged ids.
C17_UnparsableGivesEmptyResult ==
    (request.route = "prefilter" /\ handler = "responded"
        /\ llmText.array \in {"none", "malformed"}) =>
            /\ status = 200
            /\ responseBody = [engagedSourceIds |-> <<>>, engagements |-> <<>>]

\* C17 witness: the handler has answered a text whose array did not parse.
C17_Witness ==
    /\ request.route = "prefilter" /\ handler = "responded"
    /\ llmText.array = "malformed"

\* the parsed array is in the older shape: bare id strings only
oldShape ==
    /\ Len(parsedItems) > 0
    /\ \A i \in 1..Len(parsedItems) : parsedItems[i].kind = "string"

\* C18: an array of bare id strings is upgraded to one engagement per id, in
\* the same order, each with type contextualizes and the default angle.
C18_OldShapeUpgraded ==
    (prefilterAnswered /\ oldShape) =>
        /\ responseBody.engagements =
              [i \in 1..Len(parsedItems) |->
                  [sourceId |-> parsedItems[i].value, type |-> "contextualizes",
                   angle |-> "has relevant perspective"]]
        /\ responseBody.engagedSourceIds =
              [i \in 1..Len(parsedItems) |-> parsedItems[i].value]

\* C18 witness: two different bare ids were answered, the larger first.
C18_Witness ==
    /\ prefilterAnswered /\ oldShape
    /\ Len(parsedItems) = 2
    /\ parsedItems[1].value > parsedItems[2].value

(***************************************************************************)
(* The page: properties.                                                   *)
(***************************************************************************)
\* where the store holds a response whose content call c accumulated
storedBy(c) ==
    LET conversations == getParagraphConversations
    IN  {pik \in (1..Len(conversations)) \X (1..MaxCalls) \X (1..MaxCalls) :
            /\ pik[2] <= Len(conversations[pik[1]].exchanges)
            /\ pik[3] <= Len(conversations[pik[1]].exchanges[pik[2]].responses)
            /\ conversations[pik[1]].exchanges[pik[2]].responses[pik[3]].content[1].call = c}

\* C12: a call of generateSingleResponse stores at most one response, and stores it
\* for the paragraph, in the exchange and under the paper it was called with.
C12_OneResponsePerCall ==
    LET conversations == getParagraphConversations
    IN  \A p \in 1..Len(conversations) :
          \A i \in 1..Len(conversations[p].exchanges) :
            \A k \in 1..Len(conversations[p].exchanges[i].responses) :
              LET response == conversations[p].exchanges[i].responses[k]
                  c == response.content[1].call
              IN  /\ conversations[p].paragraphIndex = calls[c].paragraphIndex
                  /\ conversations[p].exchanges[i].id = calls[c].exchangeId
                  /\ response.sourceId = calls[c].paperId
                  /\ response.content = calls[c].finalContent
                  /\ \A q \in 1..Len(conversations) :
                        \A j \in 1..Len(conversations[q].exchanges) :
                          \A n \in 1..Len(conversations[q].exchanges[j].responses) :
                            conversations[q].exchanges[j].responses[n].content[1].call = c
                                => <<q, j, n>> = <<p, i, k>>

\* C12 witness: two calls for the same paper and paragraph have both read their done
\* event and each has stored its response.
C12_Witness ==
    /\ Len(calls) = 2
    /\ calls[1].paperId = calls[2].paperId
    /\ calls[1].paragraphIndex = calls[2].paragraphIndex
    /\ calls[1].stream = "done" /\ calls[2].stream = "done"
    /\ storedBy(1) # {} /\ storedBy(2) # {}

\* C13: the content of every slot shown is the concatenation, in order, of chunks of
\* the request the slot was created for (or the failure marker).
C13_SlotHoldsOwnChunks ==
    \A k \in 1..Len(responses) :
        \/ responses[k].content = FailureMarker
        \/ IsPrefix(responses[k].content, calls[responses[k].call].finalContent)

\* C20: a response is in the store only if its stream ended with done; a call whose
\* stream ended with an error event stored nothing and its slot shows the failure marker.
C20_OnlyDoneStreamsPersisted ==
    \A c \in 1..Len(calls) :
        /\ storedBy(c) # {} => calls[c].stream = "done"
        /\ calls[c].stream = "error" =>
              /\ storedBy(c) = {}
              /\ \A k \in 1..Len(responses) :
                    responses[k].call = c => responses[k].content = FailureMarker

\* C14: a prefilter call for a paragraph whose result is cached is issued by clear &
\* refresh only.
C14_CachedUntilRefresh == refetches \subseteq {"refresh"}

(***************************************************************************)
(* The library: papers, their upload and the extraction of their identity  *)
(* layer (src/app/library/page.tsx, components/PaperUpload.tsx,            *)
(* usePapers).  Of a Paper the model keeps id, title, author, fullText,    *)
(* identityLayer and status; color, paragraphs and the timestamps play no  *)
(* part in what is checked.                                                *)
(***************************************************************************)
\* at most MaxPapers papers are uploaded in one behaviour
MaxPapers == 2

\* generateId() of the k-th paper created
LibraryIds == <<"p1", "p2", "p3">>
\* the placeholder texts of a PDF that is being parsed, and of one whose parse failed
PDF_PROCESSING_TEXT == "[pdf processing]"
PDF_FAILED_TEXT == "[pdf failed]"
\* texts an upload or a paste obtains; an empty file reads as ""
Texts == {"", "text"}
\* data.identityLayer of a successful /api/extract-identity response
IdentityLayers == {"layer1", "layer2"}
\* data.metadata?.title, data.metadata?.author: absent or extracted
NoMetadata == "undefined"
MetadataTitles == {NoMetadata, "extracted title"}
MetadataAuthors == {NoMetadata, "extracted author"}
\* papers.find(p => p.id === id)
paperOf(ps, id) ==
    IF \E k \in 1..Len(ps) : ps[k].id = id
    THEN ps[CHOOSE k \in 1..Len(ps) : ps[k].id = id]
    ELSE NoPaperRecord

\* the text the upload of paper `id` obtained
sourceTextOf(id) ==
    IF \E k \in 1..Len(sourceTexts) : LibraryIds[k] = id
    THEN sourceTexts[CHOOSE k \in 1..Len(sourceTexts) : LibraryIds[k] = id]
    ELSE NoText

\* { ...p, ...updates }
merged(p, updates) == [f \in DOMAIN p |-> IF f \in DOMAIN updates THEN updates[f] ELSE p[f]]

\* the paper is stored anew when no stored paper bears the id
updatePaperOrRestore(ps, id, updates) ==
    IF \E k \in 1..Len(ps) : ps[k].id = id
    THEN [k \in 1..Len(ps) |-> IF ps[k].id # id THEN ps[k] ELSE merged(ps[k], updates)]
    ELSE Append(ps, merged([id |-> id, title |-> "file name", author |-> "Unknown",
                            fullText |-> "text", identityLayer |-> NullLayer,
                            status |-> "processing"], updates))

\* usePapers.updatePaper: the papers saved
updatePaper(ps, id, updates) ==
    [k \in 1..Len(ps) |-> IF ps[k].id # id THEN ps[k] ELSE merged(ps[k], updates)]

\* usePapers.addPaper: the new paper
newPaperOf(paperData) ==
    [id |-> LibraryIds[Len(sourceTexts) + 1], title |-> paperData.title,
     author |-> paperData.author, fullText |-> paperData.fullText,
     identityLayer |-> paperData.identityLayer, status |-> paperData.status]

\* the paper PaperUpload hands to onAdd (processFile, handlePasteSubmit)
processFile(text) ==
    [title |-> "file name", author |-> "Extracting...", fullText |-> text,
     identityLayer |-> NullLayer, status |-> "processing"]

\* the paper of a PDF whose text is still being parsed
pdfPlaceholder == processFile(PDF_PROCESSING_TEXT)

\* the updates handleUpdatePaper is called with when the parse of a PDF ends
pdfParsed(text) == [fullText |-> text]
pdfFailed == [fullText |-> PDF_FAILED_TEXT, status |-> "error", author |-> "PDF parsing failed"]

\* extractMetadataAsync up to its fetch: the request in flight
extractMetadataAsync(paperId, text, currentTitle) ==
    [paperId |-> paperId, text |-> text, currentTitle |-> currentTitle]

\* the updatePaper call of extractMetadataAsync when the response is ok
extractedUpdates(e, layer, title, author) ==
    [title |-> IF title # NoMetadata THEN title ELSE e.currentTitle,
     author |-> IF author # NoMetadata THEN author ELSE "Unknown",
     identityLayer |-> layer, status |-> "ready"]

\* the updatePaper call of the catch block of extractMetadataAsync
failedUpdatesKeepNothing == [status |-> "error", author |-> "Extraction failed", fullText |-> PDF_FAILED_TEXT]
failedUpdates == [status |-> "error", author |-> "Extraction failed"]

\* the Error badge of a paper row carries the Retry button
retryShownOnAnyError(paper) == paper.status = "error"
retryShown(paper) == paper.status = "error" /\ paper.fullText # PDF_FAILED_TEXT

\* handleAddPaper
handleAddPaper(paperData, obtained) ==
    /\ Len(sourceTexts) < MaxPapers
    /\ LET newPaper == newPaperOf(paperData) IN
        /\ papers' = Append(papers, newPaper)
        /\ papersView' = papers'
        /\ extractions' =
            IF newPaper.status = "processing" /\ newPaper.fullText # PDF_PROCESSING_TEXT
            THEN extractions \cup {extractMetadataAsync(newPaper.id, newPaper.fullText, newPaper.title)}
            ELSE extractions
        /\ sourceTexts' = Append(sourceTexts, obtained)
        /\ lastEvent' = [NoEvent EXCEPT !.kind = "created", !.id = newPaper.id]
    /\ UNCHANGED <<workspaces, workspacesView, activeWorkspaceId, activeId>>
    /\ UNCHANGED <<storeVars, chatVars, pageVars, fnVars>>

\* a file is dropped or a text is pasted
Upload == \E text \in Texts : handleAddPaper(processFile(text), text)

\* a PDF is added before its text is parsed
UploadPdf == handleAddPaper(pdfPlaceholder, NoText)

\* handleUpdatePaper
handleUpdatePaper(id, updates, title, obtained) ==
    /\ papers' = updatePaper(papers, id, updates)
    /\ papersView' = papers'
    /\ extractions' =
        IF /\ "fullText" \in DOMAIN updates
           /\ updates.fullText # ""
           /\ updates.fullText # PDF_PROCESSING_TEXT
           /\ updates.fullText # PDF_FAILED_TEXT
           /\ title # ""
        THEN extractions \cup {extractMetadataAsync(id, updates.fullText, title)}
        ELSE extractions
    /\ sourceTexts' = [k \in 1..Len(sourceTexts) |->
                          IF LibraryIds[k] = id THEN obtained ELSE sourceTexts[k]]
    /\ lastEvent' = [NoEvent EXCEPT !.kind = "updated", !.id = id, !.before = paperOf(papers, id)]
    /\ UNCHANGED <<workspaces, workspacesView, activeWorkspaceId, activeId>>
    /\ UNCHANGED <<storeVars, chatVars, pageVars, fnVars>>

\* the parse of a PDF ends, with its text or without
PdfParseEnds ==
    \E k \in 1..Len(papers) :
        /\ papers[k].fullText = PDF_PROCESSING_TEXT
        /\ \/ \E text \in Texts \ {""} :
                handleUpdatePaper(papers[k].id, pdfParsed(text), papers[k].title, text)
           \/ handleUpdatePaper(papers[k].id, pdfFailed, papers[k].title, NoText)

\* extractMetadataAsync: the response is ok
ExtractionSucceeds ==
    \E e \in extractions, layer \in IdentityLayers, title \in MetadataTitles, author \in MetadataAuthors :
        /\ e.text # ""
        /\ papers' = updatePaper(papers, e.paperId, extractedUpdates(e, layer, title, author))
        /\ papersView' = papers'
        /\ extractions' = extractions \ {e}
        /\ lastEvent' = [NoEvent EXCEPT !.kind = "succeeded", !.id = e.paperId,
                                        !.before = paperOf(papers, e.paperId), !.layer = layer]
        /\ UNCHANGED <<sourceTexts, workspaces, workspacesView, activeWorkspaceId, activeId>>
        /\ UNCHANGED <<storeVars, chatVars, pageVars, fnVars>>

\* extractMetadataAsync: the fetch rejects, or the response is not ok
ExtractionFails ==
    \E e \in extractions :
        /\ papers' = updatePaper(papers, e.paperId, failedUpdates)
        /\ papersView' = papers'
        /\ extractions' = extractions \ {e}
        /\ lastEvent' = [NoEvent EXCEPT !.kind = "failed", !.id = e.paperId,
                                        !.before = paperOf(papers, e.paperId)]
        /\ UNCHANGED <<sourceTexts, workspaces, workspacesView, activeWorkspaceId, activeId>>
        /\ UNCHANGED <<storeVars, chatVars, pageVars, fnVars>>

\* extractMetadataAsync: the fetch rejects with an AbortError (the page is left)
ExtractionAborted ==
    \E e \in extractions :
        /\ extractions' = extractions \ {e}
        /\ lastEvent' = [NoEvent EXCEPT !.kind = "aborted", !.id = e.paperId,
                                        !.before = paperOf(papers, e.paperId)]
        /\ UNCHANGED <<papers, papersView, sourceTexts, workspaces, workspacesView,
                       activeWorkspaceId, activeId>>
        /\ UNCHANGED <<storeVars, chatVars, pageVars, fnVars>>

\* handleRetryExtraction, called by the Retry button of a paper row
handleRetryExtraction ==
    \E k \in 1..Len(papersView) :
        LET paper == papersView[k] IN
        /\ retryShown(paper)
        /\ paper.fullText # PDF_FAILED_TEXT
        /\ papers' = updatePaper(papers, paper.id, [status |-> "processing", author |-> "Extracting..."])
        /\ papersView' = papers'
        /\ extractions' = extractions \cup {extractMetadataAsync(paper.id, paper.fullText, paper.title)}
        /\ lastEvent' = [NoEvent EXCEPT !.kind = "retried", !.id = paper.id,
                                        !.before = paperOf(papers, paper.id),
                                        !.text = paper.fullText]
        /\ UNCHANGED <<sourceTexts, workspaces, workspacesView, activeWorkspaceId, activeId>>
        /\ UNCHANGED <<storeVars, chatVars, pageVars, fnVars>>

(***************************************************************************)
(* Workspaces (storage functions of lib/storage, useWorkspaces, usePapers).*)
(* localStorage is shared by the tabs of the application and no tab        *)
(* listens to its changes.  The tab that is watched shows the workspaces   *)
(* page and renders from workspacesView, papersView and activeId; a second *)
(* tab shows the library page, freshly loaded, so that it renders from     *)
(* what is stored.                                                         *)
(***************************************************************************)
\* at most MaxWorkspaces workspaces are stored at a time
MaxWorkspaces == 2

\* generateId() values of workspaces
WorkspaceIds == <<"w1", "w2", "w3", "w4">>
\* WorkspaceDeleteBehavior
DeleteBehaviors == {"orphan", "delete"}

\* ids of a list of papers or of workspaces
idsOf(list) == {list[k].id : k \in 1..Len(list)}
\* the elements of an id array
elementsOf(ids) == {ids[k] : k \in 1..Len(ids)}
\* workspaces.find(w => w.id === workspaceId), for an id that is there
workspaceOf(ws, workspaceId) == ws[CHOOSE k \in 1..Len(ws) : ws[k].id = workspaceId]
\* paperIds.filter(id => id !== paperId)
withoutPaper(paperIds, paperId) == SelectSeq(paperIds, LAMBDA id : id # paperId)
\* paperIds[0] || null
firstOrNull(paperIds) == IF Len(paperIds) = 0 THEN NoPaper ELSE paperIds[1]

\* addPaperToWorkspace of the storage: the workspaces saved
addPaperToWorkspaceStorage(ws, workspaceId, paperId) ==
    [k \in 1..Len(ws) |->
        IF ws[k].id = workspaceId /\ paperId \notin elementsOf(ws[k].paperIds)
        THEN [ws[k] EXCEPT !.paperIds = Append(@, paperId)]
        ELSE ws[k]]

\* removePaperFromWorkspace of the storage: the workspaces saved
removePaperFromWorkspaceStorage(ws, workspaceId, paperId) ==
    [k \in 1..Len(ws) |->
        IF ws[k].id = workspaceId
        THEN [ws[k] EXCEPT
                !.paperIds = withoutPaper(@, paperId),
                !.activePaperId = IF @ = paperId
                                  THEN firstOrNull(withoutPaper(ws[k].paperIds, paperId))
                                  ELSE @]
        ELSE ws[k]]

\* setActivePaperInWorkspace of the storage: the workspaces saved
setActivePaperInWorkspace(ws, workspaceId, paperId) ==
    [k \in 1..Len(ws) |->
        IF ws[k].id = workspaceId THEN [ws[k] EXCEPT !.activePaperId = paperId] ELSE ws[k]]

\* usePapers.deletePaper: the workspaces saved (every workspace holding the paper drops it)
removedFromAll(ws, paperId) ==
    [k \in 1..Len(ws) |->
        IF paperId \in elementsOf(ws[k].paperIds)
        THEN removePaperFromWorkspaceStorage(ws, ws[k].id, paperId)[k]
        ELSE ws[k]]

\* deleteWorkspaceWithPapers: papersToDelete
papersToDelete(ws, workspaceId) ==
    {pid \in elementsOf(workspaceOf(ws, workspaceId).paperIds) :
        \A k \in 1..Len(ws) : ws[k].id # workspaceId => pid \notin elementsOf(ws[k].paperIds)}

\* remaining[0]?.id || null
firstWorkspaceOrNull(ws) == IF Len(ws) = 0 THEN NoWorkspace ELSE ws[1].id

\* an id generateId() has not given out: no workspace, stored or rendered, bears it
freshWorkspaceId ==
    WorkspaceIds[CHOOSE k \in 1..Len(WorkspaceIds) :
        /\ WorkspaceIds[k] \notin idsOf(workspaces) \cup idsOf(workspacesView)
                                   \cup {activeWorkspaceId, activeId}
        /\ \A j \in 1..(k - 1) :
                WorkspaceIds[j] \in idsOf(workspaces) \cup idsOf(workspacesView)
                                       \cup {activeWorkspaceId, activeId}]

\* what no workspace handler touches
WorkspaceFrame ==
    /\ UNCHANGED <<extractions, sourceTexts>>
    /\ UNCHANGED <<storeVars, chatVars, pageVars, fnVars>>

\* workspaces page, handleCreate: createWorkspace, then switchWorkspace to it
handleCreate ==
    /\ Len(workspaces) < MaxWorkspaces
    /\ LET newWorkspace == [id |-> freshWorkspaceId, paperIds |-> <<>>, activePaperId |-> NoPaper] IN
        /\ workspaces' = Append(workspaces, newWorkspace)
        /\ workspacesView' = workspaces'
        /\ activeWorkspaceId' = newWorkspace.id
        /\ activeId' = newWorkspace.id
    /\ UNCHANGED <<papers, papersView, lastEvent>>
    /\ WorkspaceFrame

\* workspaces page: switchWorkspace of a workspace row
switchWorkspace ==
    \E k \in 1..Len(workspacesView) :
        /\ workspacesView[k].id # activeId
        /\ activeWorkspaceId' = workspacesView[k].id
        /\ activeId' = workspacesView[k].id
        /\ UNCHANGED <<papers, papersView, lastEvent, workspaces, workspacesView>>
        /\ WorkspaceFrame

\* workspaces page: deleteWorkspace of a workspace row
deleteWorkspace ==
    \E k \in 1..Len(workspacesView), behavior \in DeleteBehaviors :
        LET id == workspacesView[k].id
            stored == id \in idsOf(workspaces)
            remaining == SelectSeq(workspaces, LAMBDA w : w.id # id)
            storedActive == IF stored /\ activeWorkspaceId = id
                            THEN firstWorkspaceOrNull(remaining)
                            ELSE activeWorkspaceId
        IN
        /\ papers' = IF stored /\ behavior = "delete"
                     THEN SelectSeq(papers, LAMBDA q : q.id \notin papersToDelete(workspaces, id))
                     ELSE papers
        /\ workspaces' = remaining
        /\ workspacesView' = workspaces'
        /\ activeWorkspaceId' = IF activeId = id THEN firstWorkspaceOrNull(remaining) ELSE storedActive
        /\ activeId' = IF activeId = id THEN firstWorkspaceOrNull(remaining) ELSE activeId
        /\ UNCHANGED <<papersView, lastEvent>>
        /\ WorkspaceFrame

\* workspaces page: removePaperFromWorkspace of a paper row of a workspace
removePaperFromWorkspace ==
    \E k \in 1..Len(workspacesView) :
        \E paperId \in elementsOf(workspacesView[k].paperIds) \cap idsOf(papersView) :
            /\ workspaces' = removePaperFromWorkspaceStorage(workspaces, workspacesView[k].id, paperId)
            /\ workspacesView' = workspaces'
            /\ UNCHANGED <<papers, papersView, lastEvent, activeWorkspaceId, activeId>>
            /\ WorkspaceFrame

\* workspaces page: "Set as reading" of a paper row of a workspace
setActivePaper ==
    \E k \in 1..Len(workspacesView) :
        \E paperId \in elementsOf(workspacesView[k].paperIds) \cap idsOf(papersView) :
            /\ workspacesView[k].activePaperId # paperId
            /\ workspaces' = setActivePaperInWorkspace(workspaces, workspacesView[k].id, paperId)
            /\ workspacesView' = workspaces'
            /\ UNCHANGED <<papers, papersView, lastEvent, activeWorkspaceId, activeId>>
            /\ WorkspaceFrame

\* the workspaces page is loaded again: the mount effects of usePapers and useWorkspaces
Reload ==
    /\ workspacesView # workspaces \/ papersView # papers \/ activeId # activeWorkspaceId
    /\ workspacesView' = workspaces
    /\ papersView' = papers
    /\ activeId' = activeWorkspaceId
    /\ UNCHANGED <<papers, lastEvent, workspaces, activeWorkspaceId>>
    /\ WorkspaceFrame

\* library page in the second tab: handleAddToActiveWorkspace
handleAddToActiveWorkspace ==
    \E paperId \in idsOf(papers) :
        /\ activeWorkspaceId \in idsOf(workspaces)
        /\ paperId \notin elementsOf(workspaceOf(workspaces, activeWorkspaceId).paperIds)
        /\ workspaces' = addPaperToWorkspaceStorage(workspaces, activeWorkspaceId, paperId)
        /\ UNCHANGED <<papers, papersView, lastEvent, workspacesView, activeWorkspaceId, activeId>>
        /\ WorkspaceFrame

\* library page in the second tab: handleRemoveFromActiveWorkspace
handleRemoveFromActiveWorkspace ==
    \E paperId \in idsOf(papers) :
        /\ activeWorkspaceId \in idsOf(workspaces)
        /\ paperId \in elementsOf(workspaceOf(workspaces, activeWorkspaceId).paperIds)
        /\ workspaces' = removePaperFromWorkspaceStorage(workspaces, activeWorkspaceId, paperId)
        /\ UNCHANGED <<papers, papersView, lastEvent, workspacesView, activeWorkspaceId, activeId>>
        /\ WorkspaceFrame

\* library page in the second tab: handleSetAsReading
handleSetAsReading ==
    \E paperId \in idsOf(papers) :
        /\ activeWorkspaceId \in idsOf(workspaces)
        /\ workspaceOf(workspaces, activeWorkspaceId).activePaperId # paperId
        /\ workspaces' = setActivePaperInWorkspace(
                            addPaperToWorkspaceStorage(workspaces, activeWorkspaceId, paperId),
                            activeWorkspaceId, paperId)
        /\ UNCHANGED <<papers, papersView, lastEvent, workspacesView, activeWorkspaceId, activeId>>
        /\ WorkspaceFrame

\* library page: the delete button of a paper row, usePapers.deletePaper; `watched` tells
\* whether the library page is the one that is watched
deletePaper(id, watched) ==
    /\ papers' = SelectSeq(papers, LAMBDA q : q.id # id)
    /\ papersView' = IF watched THEN papers' ELSE papersView
    /\ workspaces' = removedFromAll(workspaces, id)
    /\ lastEvent' = [NoEvent EXCEPT !.kind = "deleted", !.id = id, !.before = paperOf(papers, id)]
    /\ UNCHANGED <<workspacesView, activeWorkspaceId, activeId>>
    /\ WorkspaceFrame

\* the paper is deleted on the library page that is watched
DeleteShownPaper == \E k \in 1..Len(papersView) : deletePaper(papersView[k].id, TRUE)

\* the paper is deleted on the library page of the second tab
DeleteStoredPaper == \E k \in 1..Len(papers) : deletePaper(papers[k].id, FALSE)

\* a library of two papers whose extraction has succeeded, and no workspace
readyPaper(k) ==
    [id |-> LibraryIds[k], title |-> "file name", author |-> "Unknown", fullText |-> "text",
     identityLayer |-> "layer1", status |-> "ready"]
LibraryOfTwo ==
    /\ papers = <<readyPaper(1), readyPaper(2)>>
    /\ papersView = papers
    /\ extractions = {}
    /\ sourceTexts = <<"text", "text">>
    /\ lastEvent = NoEvent
    /\ workspaces = <<>>
    /\ workspacesView = <<>>
    /\ activeWorkspaceId = NoWorkspace
    /\ activeId = NoWorkspace

WorkspaceInit == EmptyStore /\ NoRequest /\ NoPage /\ LibraryOfTwo /\ NoCalls

WorkspaceNext ==
    \/ handleCreate
    \/ switchWorkspace
    \/ deleteWorkspace
    \/ removePaperFromWorkspace
    \/ setActivePaper
    \/ Reload
    \/ handleAddToActiveWorkspace
    \/ handleRemoveFromActiveWorkspace
    \/ handleSetAsReading
    \/ DeleteStoredPaper

SpecWorkspace == WorkspaceInit /\ [][WorkspaceNext]_vars

(***************************************************************************)
(* Properties of the library.                                              *)
(***************************************************************************)
\* C21: an uploaded paper is created with status processing and a null identityLayer; when
\* its extraction succeeds the paper is ready and holds the extracted identityLayer; when its
\* extraction fails the paper is in error and its fullText is the one it had before.  A paper
\* is processing only without an identityLayer and ready only with one.
C21_PaperLifecycle ==
    LET p == paperOf(papers, lastEvent.id) IN
    /\ lastEvent.kind = "created" => p.status = "processing" /\ p.identityLayer = NullLayer
    /\ lastEvent.kind = "succeeded" /\ lastEvent.before.id # NoPaper =>
            p.status = "ready" /\ p.identityLayer = lastEvent.layer
    /\ lastEvent.kind = "failed" /\ lastEvent.before.id # NoPaper =>
            p.status = "error" /\ p.fullText = lastEvent.before.fullText
    /\ \A k \in 1..Len(papers) :
            /\ papers[k].status = "processing" => papers[k].identityLayer = NullLayer
            /\ papers[k].status = "ready" => papers[k].identityLayer \in IdentityLayers

\* an extraction has just failed on a paper with its text, and another paper is ready
C21_Witness ==
    /\ lastEvent.kind = "failed"
    /\ paperOf(papers, lastEvent.id).status = "error"
    /\ paperOf(papers, lastEvent.id).fullText = "text"
    /\ \E k \in 1..Len(papers) : papers[k].status = "ready" /\ papers[k].identityLayer = "layer2"

C23_ActivePaperIsMember ==
    \A k \in 1..Len(workspaces) :
        \/ workspaces[k].activePaperId = NoPaper
        \/ workspaces[k].activePaperId \in elementsOf(workspaces[k].paperIds)

LibraryInit == EmptyStore /\ NoRequest /\ NoPage /\ NoLibrary /\ NoCalls

LibraryNext ==
    \/ Upload
    \/ UploadPdf
    \/ PdfParseEnds
    \/ ExtractionSucceeds
    \/ ExtractionFails
    \/ ExtractionAborted
    \/ handleRetryExtraction
    \/ DeleteShownPaper

SpecLibrary == LibraryInit /\ [][LibraryNext]_vars

(***************************************************************************)
(* Calls of the size gate.                                                 *)
(***************************************************************************)
\* a caller asks whether a text is within a limit
CallIsWithinTokenLimit ==
    /\ Len(tokenCalls) < MaxTokenCalls
    /\ \E text \in SizedTexts, limit \in Limits :
        tokenCalls' = Append(tokenCalls,
            [text |-> text, limit |-> limit, estimate |-> estimateTokens(text),
             within |-> isWithinTokenLimit(text, limit)])
    /\ UNCHANGED <<promptCalls, identityCalls, readingVars>>
    /\ UNCHANGED <<storeVars, chatVars, pageVars>>
    /\ UNCHANGED <<papers, papersView, extractions, sourceTexts, lastEvent, workspaces,
                   workspacesView, activeWorkspaceId, activeId>>

TokensInit == EmptyStore /\ NoRequest /\ NoPage /\ NoLibrary /\ NoCalls

TokensNext == CallIsWithinTokenLimit

SpecTokens == TokensInit /\ [][TokensNext]_vars

\* C25: a text is within the limit exactly when its estimate is at most the limit; with the
\* default limit an estimate of 500000 is within it and an estimate of 500001 is not.
C25_WithinIffEstimateAtMostLimit ==
    \A k \in 1..Len(tokenCalls) :
        LET c == tokenCalls[k] IN
        /\ c.within <=> c.estimate <= c.limit
        /\ c.limit = 500000 /\ c.estimate = 500000 => c.within
        /\ c.limit = 500000 /\ c.estimate > 500000 => ~c.within

\* a text estimated at exactly the default limit was found within it, one estimated at one
\* more was not
C25_Witness ==
    /\ Len(tokenCalls) = 2
    /\ tokenCalls[1].limit = DefaultLimit /\ tokenCalls[1].estimate = DefaultLimit
    /\ tokenCalls[1].within
    /\ tokenCalls[2].limit = DefaultLimit /\ tokenCalls[2].estimate = DefaultLimit + 1
    /\ ~tokenCalls[2].within

\* C26 as stated: the estimate is ceil(0.75 x the number of words of the text), and of two
\* texts the one with more words has no smaller estimate.
C26_MonotoneInWords ==
    \A i \in 1..Len(tokenCalls) :
        /\ 4 * tokenCalls[i].estimate >= 3 * tokenCalls[i].text.words
        /\ 4 * tokenCalls[i].estimate < 3 * tokenCalls[i].text.words + 4
        /\ \A j \in 1..Len(tokenCalls) :
                tokenCalls[i].text.words <= tokenCalls[j].text.words =>
                    tokenCalls[i].estimate <= tokenCalls[j].estimate

\* C26 (amended): the estimate is ceil(0.75 x the number of pieces the text splits into at
\* runs of whitespace, empty pieces included), and of two texts the one that splits into
\* more pieces has no smaller estimate.
C26_MonotoneInPieces ==
    \A i \in 1..Len(tokenCalls) :
        /\ 4 * tokenCalls[i].estimate >= 3 * splitLength(tokenCalls[i].text)
        /\ 4 * tokenCalls[i].estimate < 3 * splitLength(tokenCalls[i].text) + 4
        /\ \A j \in 1..Len(tokenCalls) :
                splitLength(tokenCalls[i].text) <= splitLength(tokenCalls[j].text) =>
                    tokenCalls[i].estimate <= tokenCalls[j].estimate

\* a text of one word between whitespace was estimated higher than a text of two words
C26_Witness ==
    /\ Len(tokenCalls) = 2
    /\ tokenCalls[1].text = [words |-> 1, leading |-> TRUE, trailing |-> TRUE]
    /\ tokenCalls[2].text = [words |-> 2, leading |-> FALSE, trailing |-> FALSE]
    /\ tokenCalls[1].estimate > tokenCalls[2].estimate

(***************************************************************************)
(* Prompts built by the chat handler for its agents.                       *)
(***************************************************************************)
\* a conversationHistory has at most MaxHistory entries
MaxHistory == 2

PromptQuestions == Questions \cup {""}
PromptContexts == {NoContext, "comment"}
HistoryEntries == [question : {NoQuestion, "earlier question"}, response : {responseOf(s) : s \in SourceIds}]
PromptHistories == UNION {[1..n -> HistoryEntries] : n \in 0..MaxHistory}

\* the chat handler builds the user prompt of one agent
BuildAgentUserPrompt ==
    /\ promptCalls = <<>>
    /\ \E question \in PromptQuestions, context \in PromptContexts, fullText \in SizedTexts,
          conversationHistory \in PromptHistories :
        promptCalls' = <<[passage |-> "passage", question |-> question, context |-> context,
                          fullText |-> fullText, conversationHistory |-> conversationHistory,
                          prompt |-> agentUserPrompt("passage", question, context, fullText,
                                                     conversationHistory)]>>
    /\ UNCHANGED <<tokenCalls, identityCalls, readingVars>>
    /\ UNCHANGED <<storeVars, chatVars, pageVars>>
    /\ UNCHANGED <<papers, papersView, extractions, sourceTexts, lastEvent, workspaces,
                   workspacesView, activeWorkspaceId, activeId>>

PromptInit == EmptyStore /\ NoRequest /\ NoPage /\ NoLibrary /\ NoCalls

PromptNext == BuildAgentUserPrompt

SpecPrompt == PromptInit /\ [][PromptNext]_vars

\* the prompt holds the FULL TEXT OF SOURCE block with the text, verbatim
embeds(prompt, fullText) ==
    \E k \in 1..Len(prompt) :
        prompt[k].kind = "FULL TEXT OF SOURCE" /\ prompt[k].fullText = fullText
\* the prompt holds no FULL TEXT OF SOURCE block
omitsFullText(prompt) == \A k \in 1..Len(prompt) : prompt[k].kind # "FULL TEXT OF SOURCE"
\* the estimate of the text, ceil(0.75 x pieces), is at most 500000
fits(text) == 3 * splitLength(text) <= 4 * 500000

\* C24 as stated: the prompt of an agent call embeds the source's fullText verbatim when
\* fits(fullText) holds and omits it otherwise.
C24_FullTextIffFits ==
    \A k \in 1..Len(promptCalls) :
        LET c == promptCalls[k] IN
        IF fits(c.fullText) THEN embeds(c.prompt, c.fullText) ELSE omitsFullText(c.prompt)

\* C24 (amended): the prompt of an agent call embeds the source's fullText verbatim when
\* fits(fullText) holds and the fullText is not empty, and omits it otherwise.
C24_NonEmptyFullTextIffFits ==
    \A k \in 1..Len(promptCalls) :
        LET c == promptCalls[k] IN
        IF fits(c.fullText) /\ ~isEmptyText(c.fullText)
        THEN embeds(c.prompt, c.fullText)
        ELSE omitsFullText(c.prompt)

\* a text estimated at exactly 500000 is embedded
C24_Witness ==
    /\ Len(promptCalls) = 1
    /\ estimateTokens(promptCalls[1].fullText) = DefaultLimit
    /\ embeds(promptCalls[1].prompt, promptCalls[1].fullText)

\* the question the handler passes on: the comment to respond to, else the question asked
passedQuestion(c) == IF c.context # NoContext THEN respondTo(c.context) ELSE c.question
\* the instruction sections of a prompt
instructionsOf(prompt) ==
    {k \in 1..Len(prompt) :
        prompt[k].kind \in {"NEW QUESTION", "How does this text relate to the passage?"}}

\* C27: a prompt built with a question ends with the NEW QUESTION line of that question; one
\* built without question and without history ends with the default prompt; one built
\* without question but with history ends with its PREVIOUS ANALYSIS block and holds no
\* instruction.  No prompt holds two instructions.
C27_OneEnding ==
    \A k \in 1..Len(promptCalls) :
        LET c == promptCalls[k]
            last == c.prompt[Len(c.prompt)]
            asked == passedQuestion(c) \notin {NoQuestion, ""}
        IN
        /\ Cardinality(instructionsOf(c.prompt)) <= 1
        /\ asked => last.kind = "NEW QUESTION" /\ last.question = passedQuestion(c)
        /\ ~asked /\ c.conversationHistory = <<>> =>
                last.kind = "How does this text relate to the passage?"
        /\ ~asked /\ c.conversationHistory # <<>> =>
                last.kind = "PREVIOUS ANALYSIS" /\ instructionsOf(c.prompt) = {}

\* a prompt with history and without question ends with its PREVIOUS ANALYSIS block
C27_Witness ==
    /\ Len(promptCalls) = 1
    /\ promptCalls[1].question = NoQuestion
    /\ promptCalls[1].context = NoContext
    /\ Len(promptCalls[1].conversationHistory) = 2
    /\ promptCalls[1].prompt[Len(promptCalls[1].prompt)].kind = "PREVIOUS ANALYSIS"

\* place of a section in the fixed order
rank(section) ==
    CASE section.kind = "FULL TEXT OF SOURCE" -> 1
      [] section.kind = "PASSAGE BEING DISCUSSED" -> 2
      [] section.kind = "PREVIOUS ANALYSIS" -> 3
      [] OTHER -> 4

\* the questions of the PREVIOUS ANALYSIS lines, in order
RECURSIVE askedIn(_, _)
askedIn(lines, k) ==
    IF k > Len(lines) THEN <<>>
    ELSE (IF lines[k].label = "Reader asked" THEN <<lines[k].text>> ELSE <<>>)
         \o askedIn(lines, k + 1)

\* the questions of a history, in order
RECURSIVE questionsAsked(_, _)
questionsAsked(conversationHistory, k) ==
    IF k > Len(conversationHistory) THEN <<>>
    ELSE (IF conversationHistory[k].question # NoQuestion
          THEN <<conversationHistory[k].question>> ELSE <<>>)
         \o questionsAsked(conversationHistory, k + 1)

\* C28: the sections of a prompt follow each other in the order full text, passage, PREVIOUS
\* ANALYSIS, instruction; the passage is always there; the PREVIOUS ANALYSIS block is there
\* exactly when there is history, and lists the responses and the questions of the history in
\* the order of the history, each question right before the response of its entry.
C28_FixedSectionOrder ==
    \A k \in 1..Len(promptCalls) :
        LET c == promptCalls[k]
            pr == c.prompt
            blocks == {i \in 1..Len(pr) : pr[i].kind = "PREVIOUS ANALYSIS"}
        IN
        /\ \A i \in 1..Len(pr) : \A j \in 1..Len(pr) : i < j => rank(pr[i]) < rank(pr[j])
        /\ \E i \in 1..Len(pr) : pr[i].kind = "PASSAGE BEING DISCUSSED" /\ pr[i].passage = c.passage
        /\ (blocks # {}) <=> (c.conversationHistory # <<>>)
        /\ \A i \in blocks :
            /\ responsesIn(pr[i].lines, 1)
                    = [n \in 1..Len(c.conversationHistory) |-> c.conversationHistory[n].response]
            /\ askedIn(pr[i].lines, 1) = questionsAsked(c.conversationHistory, 1)
            /\ \A n \in 1..Len(pr[i].lines) :
                    pr[i].lines[n].label = "Reader asked" =>
                        n < Len(pr[i].lines) /\ pr[i].lines[n + 1].label = "Previous response"

\* a prompt with all four sections, whose history has two different entries
C28_Witness ==
    /\ Len(promptCalls) = 1
    /\ Len(promptCalls[1].prompt) = 4
    /\ Len(promptCalls[1].conversationHistory) = 2
    /\ promptCalls[1].conversationHistory[1] # promptCalls[1].conversationHistory[2]
    /\ promptCalls[1].conversationHistory[2].question # NoQuestion

(***************************************************************************)
(* Identity parsing (lib/prompts.ts, parseIdentityLayerResponse).  A       *)
(* response of the LLM is modelled by what the function sees of it: whether*)
(* /\{[\s\S]*\}/ matches, whether JSON.parse accepts the match, and the    *)
(* properties of the parsed object.  A text is modelled by the sequence of *)
(* the strings concatenated into it.                                       *)
(***************************************************************************)
\* a property the parsed object does not have
Absent == "undefined"
\* values of an array property: absent, an array of strings, or a string where an array
\* is expected
AbsentArray == [type |-> "undefined", items |-> <<>>]
arrayOf(items) == [type |-> "array", items |-> items]
stringNotArray == [type |-> "string", items |-> <<"t1, t2">>]

\* a raw-like property of the response: absent, or a text of the LLM
NoRaw == <<>>
llmRaw == <<[heading |-> "IDENTITY", body |-> <<"raw text of the response">>]>>

LlmObjects ==
    [kind : {"object"},
     title : {Absent, "Book Title"},
     author : {Absent, "Author Name"},
     year : {Absent, "2023"},
     coreCommitments : {Absent, "", "Core text"},
     antagonists : {Absent, "Antagonist text"},
     characteristicMoves : {Absent, "Moves text"},
     vocabulary : {AbsentArray, arrayOf(<<>>), arrayOf(<<"term1", "term2">>), stringNotArray},
     triggers : {Absent, "Trigger text"},
     voiceSamples : {AbsentArray, arrayOf(<<"quote1">>), stringNotArray},
     raw : {NoRaw, llmRaw}]

\* a response without braces ('Not JSON at all'), and one whose braces do not hold JSON
\* ('{ broken json }', or two objects with text between them)
notAnObject(kind) ==
    [kind |-> kind, title |-> Absent, author |-> Absent, year |-> Absent,
     coreCommitments |-> Absent, antagonists |-> Absent,
     characteristicMoves |-> Absent, vocabulary |-> AbsentArray, triggers |-> Absent,
     voiceSamples |-> AbsentArray, raw |-> NoRaw]

LlmResponses == LlmObjects \cup {notAnObject("no match"), notAnObject("invalid JSON")}

\* parsed.x || ''
orEmpty(value) == IF value = Absent THEN "" ELSE value
\* parsed.x || []: an absent property gives [], an array, empty or not, is kept, and so is
\* a string (the model's strings in this place are not empty)
orEmptyArray(value) == IF value.type = "undefined" THEN arrayOf(<<>>) ELSE value
\* parsed.x || null
orNull(value) == IF value = Absent \/ value = "" THEN "null" ELSE value

RECURSIVE join(_, _, _)
\* items.join(sep), from item k on
join(items, sep, k) ==
    IF k > Len(items) THEN <<>>
    ELSE IF k = Len(items) THEN <<items[k]>>
    ELSE <<items[k], sep>> \o join(items, sep, k + 1)

RECURSIVE joinQuoted(_, _, _)
\* items.map(q => `"${q}"`).join(sep), from item k on
joinQuoted(items, sep, k) ==
    IF k > Len(items) THEN <<>>
    ELSE IF k = Len(items) THEN <<"\"", items[k], "\"">>
    ELSE <<"\"", items[k], "\"", sep>> \o joinQuoted(items, sep, k + 1)

\* the template of identityLayer.raw
rawOf(layer) ==
    << [heading |-> "CORE COMMITMENTS", body |-> <<layer.coreCommitments>>],
       [heading |-> "ANTAGONISTS", body |-> <<layer.antagonists>>],
       [heading |-> "CHARACTERISTIC MOVES", body |-> <<layer.characteristicMoves>>],
       [heading |-> "KEY VOCABULARY", body |-> join(layer.vocabulary.items, ", ", 1)],
       [heading |-> "TRIGGERS", body |-> <<layer.triggers>>],
       [heading |-> "CHARACTERISTIC PASSAGES", body |-> joinQuoted(layer.voiceSamples.items, "\n", 1)] >>

\* the identityLayer object before its raw is built
fieldsAsParsed(parsed) ==
    [coreCommitments |-> parsed.coreCommitments,
     antagonists |-> parsed.antagonists,
     characteristicMoves |-> parsed.characteristicMoves,
     vocabulary |-> orEmptyArray(parsed.vocabulary),
     triggers |-> parsed.triggers,
     voiceSamples |-> orEmptyArray(parsed.voiceSamples),
     raw |-> NoRaw]
fieldsOf(parsed) ==
    [coreCommitments |-> orEmpty(parsed.coreCommitments),
     antagonists |-> orEmpty(parsed.antagonists),
     characteristicMoves |-> orEmpty(parsed.characteristicMoves),
     vocabulary |-> orEmptyArray(parsed.vocabulary),
     triggers |-> orEmpty(parsed.triggers),
     voiceSamples |-> orEmptyArray(parsed.voiceSamples),
     raw |-> NoRaw]

\* the result null, and what is returned in its place when an exception escapes
NoIdentityLayer ==
    [coreCommitments |-> "", antagonists |-> "", characteristicMoves |-> "",
     vocabulary |-> AbsentArray, triggers |-> "", voiceSamples |-> AbsentArray, raw |-> NoRaw]
NoMetadataRecord == [title |-> "null", author |-> "null", year |-> "null"]

\* the metadata object
metadataOf(parsed) ==
    [title |-> orNull(parsed.title), author |-> orNull(parsed.author), year |-> orNull(parsed.year)]
nullResult == [outcome |-> "null", identityLayer |-> NoIdentityLayer, metadata |-> NoMetadataRecord]
thrown == [outcome |-> "exception", identityLayer |-> NoIdentityLayer, metadata |-> NoMetadataRecord]

\* parseIdentityLayerResponse
parseIdentityLayerResponseKeepsRaw(response) ==
    IF response.kind # "object" THEN nullResult
    ELSE LET identityLayer == fieldsOf(response) IN
         IF identityLayer.vocabulary.type # "array" \/ identityLayer.voiceSamples.type # "array"
         THEN nullResult
         ELSE [outcome |-> "result",
               identityLayer |-> [identityLayer EXCEPT
                    !.raw = IF response.raw # NoRaw THEN response.raw ELSE rawOf(identityLayer)],
               metadata |-> metadataOf(response)]
parseIdentityLayerResponseUncaught(response) ==
    IF response.kind = "no match" THEN nullResult
    ELSE IF response.kind = "invalid JSON"
    THEN [outcome |-> "result", identityLayer |-> fieldsOf(response),
          metadata |-> NoMetadataRecord]
    ELSE LET identityLayer == fieldsOf(response) IN
         IF identityLayer.vocabulary.type # "array" \/ identityLayer.voiceSamples.type # "array"
         THEN thrown
         ELSE [outcome |-> "result",
               identityLayer |-> [identityLayer EXCEPT !.raw = rawOf(identityLayer)],
               metadata |-> metadataOf(response)]
parseIdentityLayerResponse(response) ==
    IF response.kind = "no match" THEN nullResult             \* if (!jsonMatch) return null
    ELSE IF response.kind = "invalid JSON" THEN nullResult    \* JSON.parse throws: return null
    ELSE LET identityLayer == fieldsOf(response) IN
         \* .join and .map of a value that is no array throw a TypeError: the outer catch
         IF identityLayer.vocabulary.type # "array" \/ identityLayer.voiceSamples.type # "array"
         THEN nullResult
         ELSE [outcome |-> "result",
               identityLayer |-> [identityLayer EXCEPT !.raw = rawOf(identityLayer)],
               metadata |-> metadataOf(response)]

\* JSON.stringify of a stored identity layer, as a response
stringified(layer) ==
    [kind |-> "object", title |-> Absent, author |-> Absent, year |-> Absent,
     coreCommitments |-> layer.coreCommitments,
     antagonists |-> layer.antagonists, characteristicMoves |-> layer.characteristicMoves,
     vocabulary |-> layer.vocabulary, triggers |-> layer.triggers,
     voiceSamples |-> layer.voiceSamples, raw |-> layer.raw]

IdentityFrame ==
    /\ UNCHANGED <<tokenCalls, promptCalls, readingVars>>
    /\ UNCHANGED <<storeVars, chatVars, pageVars>>
    /\ UNCHANGED <<papers, papersView, extractions, sourceTexts, lastEvent, workspaces,
                   workspacesView, activeWorkspaceId, activeId>>

\* the extract-identity handler parses a response of the LLM
ParseResponse ==
    /\ identityCalls = <<>>
    /\ \E response \in LlmResponses :
        identityCalls' = <<[response |-> response, result |-> parseIdentityLayerResponse(response)]>>
    /\ IdentityFrame

\* it parses a second response, which differs from the first in its raw-like property, in
\* its title, or in that a property is the empty string rather than absent
ParseVariant ==
    /\ Len(identityCalls) = 1
    /\ identityCalls[1].response.kind = "object"
    /\ \E raw \in {NoRaw, llmRaw}, title \in {Absent, "Book Title"}, core \in {Absent, "", "Core text"} :
        LET first == identityCalls[1].response
            response == [first EXCEPT !.raw = raw, !.title = title,
                            !.coreCommitments = IF first.coreCommitments = "Core text"
                                                THEN "Core text" ELSE core]
        IN  /\ response # first
            /\ identityCalls' = Append(identityCalls,
                    [response |-> response, result |-> parseIdentityLayerResponse(response)])
    /\ IdentityFrame

\* a stored identity layer is serialized and parsed again
ParseStoredLayer ==
    /\ Len(identityCalls) = 1
    /\ identityCalls[1].result.outcome = "result"
    /\ LET response == stringified(identityCalls[1].result.identityLayer) IN
        identityCalls' = Append(identityCalls,
            [response |-> response, result |-> parseIdentityLayerResponse(response)])
    /\ IdentityFrame

IdentityInit == EmptyStore /\ NoRequest /\ NoPage /\ NoLibrary /\ NoCalls

IdentityNext ==
    \/ ParseResponse
    \/ ParseVariant
    \/ ParseStoredLayer

SpecIdentity == IdentityInit /\ [][IdentityNext]_vars

\* C29: a response without a JSON object, or whose matched text does not parse, gives null;
\* no call lets an exception escape; and a result that is not null comes from a parsed
\* object and holds an identity layer all of whose fields are set: the four text fields,
\* arrays for the two array fields and a raw of six sections.
C29_ParseFailsCleanly ==
    \A k \in 1..Len(identityCalls) :
        LET c == identityCalls[k] IN
        /\ c.response.kind \in {"no match", "invalid JSON"} => c.result = nullResult
        /\ c.result.outcome # "exception"
        /\ c.result.outcome = "null" => c.result.identityLayer = NoIdentityLayer
        /\ c.result.outcome = "result" =>
            /\ c.response.kind = "object"
            /\ c.result.identityLayer.vocabulary.type = "array"
            /\ c.result.identityLayer.voiceSamples.type = "array"
            /\ \A f \in {"coreCommitments", "antagonists", "characteristicMoves", "triggers"} :
                    c.result.identityLayer[f] # Absent
            /\ Len(c.result.identityLayer.raw) = 6

\* a response whose vocabulary is a string where an array is expected has been given null
C29_Witness ==
    /\ Len(identityCalls) >= 1
    /\ identityCalls[1].response.kind = "object"
    /\ identityCalls[1].response.vocabulary = stringNotArray
    /\ identityCalls[1].result = nullResult

\* the section headings of raw, in order
RawHeadings ==
    <<"CORE COMMITMENTS", "ANTAGONISTS", "CHARACTERISTIC MOVES", "KEY VOCABULARY", "TRIGGERS",
      "CHARACTERISTIC PASSAGES">>

\* the structured fields of an identity layer
structured(layer) == [layer EXCEPT !.raw = NoRaw]

\* C30: the raw of every identity layer returned has the six sections in their fixed order,
\* each holding the layer's own field, whatever raw-like property the response carries; two
\* responses that give equal structured fields give equal raw; parsing a returned layer again
\* gives the same raw.
C30_RawRebuiltFromFields ==
    \A k \in 1..Len(identityCalls) :
        LET c == identityCalls[k]
            layer == c.result.identityLayer
        IN  c.result.outcome = "result" =>
            /\ [n \in 1..Len(layer.raw) |-> layer.raw[n].heading] = RawHeadings
            /\ layer.raw[1].body = <<layer.coreCommitments>>
            /\ layer.raw[2].body = <<layer.antagonists>>
            /\ layer.raw[3].body = <<layer.characteristicMoves>>
            /\ Len(layer.raw[4].body) = IF Len(layer.vocabulary.items) = 0 THEN 0
                                        ELSE 2 * Len(layer.vocabulary.items) - 1
            /\ \A n \in 1..Len(layer.vocabulary.items) :
                    layer.raw[4].body[2 * n - 1] = layer.vocabulary.items[n]
            /\ layer.raw[5].body = <<layer.triggers>>
            /\ Len(layer.raw[6].body) = IF Len(layer.voiceSamples.items) = 0 THEN 0
                                        ELSE 4 * Len(layer.voiceSamples.items) - 1
            /\ \A n \in 1..Len(layer.voiceSamples.items) :
                    layer.raw[6].body[4 * n - 2] = layer.voiceSamples.items[n]
            /\ \A j \in 1..Len(identityCalls) :
                    LET d == identityCalls[j] IN
                    (d.result.outcome = "result"
                        /\ structured(d.result.identityLayer) = structured(layer)) =>
                            d.result.identityLayer.raw = layer.raw

\* two responses with the same fields, one of them with a raw-like property, have been given
\* the same raw
C30_Witness ==
    /\ Len(identityCalls) = 2
    /\ identityCalls[1].response.raw = NoRaw
    /\ identityCalls[2].response.raw = llmRaw
    /\ identityCalls[1].response.vocabulary = arrayOf(<<"term1", "term2">>)
    /\ identityCalls[1].result.outcome = "result"
    /\ identityCalls[2].result.outcome = "result"
    /\ identityCalls[1].result.identityLayer.raw = identityCalls[2].result.identityLayer.raw

\* the properties of a parsed object that a response can omit
TextFields == {"coreCommitments", "antagonists", "characteristicMoves", "triggers"}
ArrayFields == {"vocabulary", "voiceSamples"}
MetadataFields == {"title", "author", "year"}

\* C31: a response that parses to an object, whatever properties it omits, gives a result
\* and no exception: each absent metadata property is null, each absent text field is the
\* empty string and each absent array field the empty list.
C31_AbsentFieldsDefault ==
    \A k \in 1..Len(identityCalls) :
        LET c == identityCalls[k] IN
        (c.response.kind = "object" /\ \A f \in ArrayFields : c.response[f].type # "string") =>
            /\ c.result.outcome = "result"
            /\ \A f \in MetadataFields :
                    c.response[f] = Absent => c.result.metadata[f] = "null"
            /\ \A f \in MetadataFields :
                    c.response[f] \notin {Absent, ""} => c.result.metadata[f] = c.response[f]
            /\ \A f \in TextFields :
                    c.response[f] = Absent => c.result.identityLayer[f] = ""
            /\ \A f \in ArrayFields :
                    c.response[f].type = "undefined" =>
                        c.result.identityLayer[f] = arrayOf(<<>>)

\* a response that holds a title and nothing else has been given a layer of empty fields
C31_Witness ==
    /\ Len(identityCalls) >= 1
    /\ identityCalls[1].response = [notAnObject("object") EXCEPT !.title = "Book Title"]
    /\ identityCalls[1].result.outcome = "result"
    /\ identityCalls[1].result.metadata = [title |-> "Book Title", author |-> "null", year |-> "null"]
    /\ \A f \in TextFields : identityCalls[1].result.identityLayer[f] = ""
    /\ \A f \in ArrayFields : identityCalls[1].result.identityLayer[f].items = <<>>

(***************************************************************************)
(* The page: where a response that ends after the selection moved is kept. *)
(***************************************************************************)
\* the paragraph index and exchange id under which the store holds position pik
placeOf(pik) ==
    <<getParagraphConversations[pik[1]].paragraphIndex,
      getParagraphConversations[pik[1]].exchanges[pik[2]].id>>

\* the id of the exchange last started for the selected paragraph
currentExchangeId ==
    exchangesOf(selectedParagraphIndex)[Len(exchangesOf(selectedParagraphIndex))].id

\* C32: a call whose stream ended with done after it read content has its response in
\* the store, under the paragraph index and in the exchange the call was made with and
\* nowhere else, whichever paragraph is selected and whichever exchange is the latest.
C32_StoredWhereRequested ==
    \A c \in 1..Len(calls) :
        (calls[c].stream = "done" /\ calls[c].finalContent # <<>>) =>
            /\ storedBy(c) # {}
            /\ \A pik \in storedBy(c) :
                  placeOf(pik) = <<calls[c].paragraphIndex, calls[c].exchangeId>>

\* the response of the first call is stored although, while it streamed, another
\* paragraph was selected and another exchange was started there
C32_Witness ==
    /\ Len(calls) = 2
    /\ calls[1].stream = "done" /\ calls[1].finalContent # <<>>
    /\ calls[2].stream = "streaming"
    /\ selectedParagraphIndex # calls[1].paragraphIndex
    /\ currentExchangeId # calls[1].exchangeId
    /\ storedBy(1) # {}

(***************************************************************************)
(* The orchestrator: the shape of the events of one paper.                 *)
(***************************************************************************)
\* the chat handler alone: requests, the agents' streams, the join and a consumer
\* that may go away
OrchestratorNext ==
    \/ ChatPOSTStep
    \/ ProviderDeltaStep
    \/ ProviderEndStep
    \/ ProviderFailStep
    \/ Finish
    \/ Disconnect

SpecOrchestrator == ChatInit /\ [][OrchestratorNext]_vars

\* the types of the events the channel holds for sourceId, in channel order
eventTypes(sourceId) ==
    LET events == SelectSeq(channel, LAMBDA e : e.type # "complete" /\ e.sourceId = sourceId)
    IN  [k \in 1..Len(events) |-> events[k].type]

\* start, then chunks, then at most one terminal event, which is the last
wellFormed(types) ==
    /\ Len(types) >= 1
    /\ types[1] = "start"
    /\ \A k \in 2..Len(types) :
          IF k < Len(types) THEN types[k] = "chunk"
          ELSE types[k] \in {"chunk", "done", "error"}

\* C33: the events the channel holds for a target paper are one start, then chunks,
\* then at most one terminal event, done or error, with nothing after it; the
\* terminal event is there once the paper's task has ended with the consumer still
\* reading; and the complete event is the last event of the channel.
C33_WellFormedEvents ==
    /\ handler \in {"streaming", "finished"} =>
          \A i \in 1..Len(targetSources) :
              /\ wellFormed(eventTypes(targetSources[i].id))
              /\ (pc[i] \in {"done", "error"} /\ controller # "cancelled") =>
                    /\ Cardinality(terminalsOf(targetSources[i].id)) = 1
                    /\ eventTypes(targetSources[i].id)
                           [Len(eventTypes(targetSources[i].id))] = pc[i]
    /\ \A k \in 1..Len(channel) :
          /\ channel[k].type = "complete" => k = Len(channel)
          /\ channel[k].type # "complete" =>
                \E i \in 1..Len(targetSources) : channel[k].sourceId = targetSources[i].id

\* of two papers one streamed two chunks and ended with done, the other failed, and
\* complete was sent
C33_Witness ==
    /\ handler = "finished"
    /\ Len(targetSources) = 2
    /\ channel[Len(channel)].type = "complete"
    /\ \E i, j \in 1..2 :
          /\ eventTypes(targetSources[i].id) = <<"start", "chunk", "chunk", "done">>
          /\ eventTypes(targetSources[j].id) = <<"start", "error">>

(***************************************************************************)
(* The store: the history of a paper and responses that arrive late.       *)
(***************************************************************************)
\* the positions <<exchange, response>> of the responses stored for sourceId in the
\* record of a paragraph
responsesOf(paragraphIndex, sourceId) ==
    LET exchanges == exchangesOf(paragraphIndex)
    IN  {ik \in (1..Len(exchanges)) \X (1..MaxOps) :
            /\ ik[2] <= Len(exchanges[ik[1]].responses)
            /\ exchanges[ik[1]].responses[ik[2]].sourceId = sourceId}

\* C34: the history of a paper for a paragraph has one entry for every response stored
\* for that paper in the paragraph's record, whichever exchange holds it and however
\* many responses of the paper an exchange holds.
C34_HistoryHoldsEveryResponse ==
    \A p \in ParagraphIndexes, sourceId \in Papers :
        Len(getSourceHistoryForParagraph(p, sourceId))
            = Cardinality(responsesOf(p, sourceId))

\* the paragraph has no record, or its record has no exchange with the id
unknownExchange(paragraphIndex, exchangeId) ==
    findExchange(exchangesOf(paragraphIndex), exchangeId) = 0

\* C35: appending a response for a paragraph whose record is missing (it was cleared)
\* or for an exchange id the record does not hold leaves the store as it was: neither
\* the record nor the exchange is created again.
C35_LateResponseDropped ==
    [][\A h \in returned, s \in Papers, t \in ClockReadings :
          (unknownExchange(h[1], h[2]) /\ addResponse(h[1], h[2], s, contentOf(s, h[2]), t))
              => localStorage' = localStorage]_vars

\* a response has been appended for an exchange of a cleared paragraph, and another
\* paragraph's record is still in the store
C35_Witness ==
    /\ lastOp.op = "addResponse"
    /\ \E h \in returned : h[1] = lastOp.paragraphIndex
    /\ findConversation(getParagraphConversations, lastOp.paragraphIndex) = 0
    /\ localStorage # <<>>

(***************************************************************************)
(* The reading view across active papers and workspaces (Home in           *)
(* src/app/page.tsx with useParagraphConversations and useScanEngagements).*)
(* The callbacks of the hooks close over the pair of the render that made  *)
(* them; a stream keeps the callbacks of the render it was started in.     *)
(* Which paragraph is selected plays no part here: a flag can be clicked   *)
(* and a question asked on any paragraph that is not a header.             *)
(***************************************************************************)
\* addExchangeToParagraph(workspaceId, activePaperId, ...): the value it saves under
\* the key of the pair, from the value `item` found there
addExchangeIn(item, paragraphIndex, exchange) ==
    LET conversations == getItem(item)
        i == findConversation(conversations, paragraphIndex)
        created == IF i = 0
                   THEN Append(conversations,
                               [paragraphIndex |-> paragraphIndex,
                                paragraphText |-> ParagraphTextOf(paragraphIndex),
                                exchanges |-> <<>>])
                   ELSE conversations
        k == IF i = 0 THEN Len(conversations) + 1 ELSE i
    IN  setItem([created EXCEPT ![k].exchanges = pushExchange(@, exchange)])

\* addResponseToExchange(workspaceId, activePaperId, ...): the value it leaves under
\* the key of the pair
addResponseIn(item, paragraphIndex, exchangeId, response, t) ==
    LET conversations == getItem(item)
        i == findConversation(conversations, paragraphIndex)
    IN  IF i = 0 THEN item
        ELSE LET k == findExchange(conversations[i].exchanges, exchangeId)
             IN  IF k = 0 THEN item
                 ELSE setItem([conversations EXCEPT ![i].exchanges[k].responses =
                                  Append(@, [sourceId |-> response.sourceId,
                                             content |-> response.content,
                                             timestamp |-> t])])

\* updateEngagement(paragraphIndex, entries) for every paragraph the effect on
\* savedConversations found new papers for: the stored value of the pair
updateEngagementIn(stored, engs, entries) ==
    [i \in DOMAIN stored |-> IF entries[i] # engs[i] THEN entries[i] ELSE stored[i]]

\* the effect of Home on savedConversations, in a render of `pair` whose engagements
\* are engs: the papers that responded in `conversations` are merged into them
mergeEffect(pair, engs, conversations) ==
    /\ viewEngagements' = mergeResponders(engs, conversations)
    /\ scanEngagementsOf' =
           [scanEngagementsOf EXCEPT ![pair] =
               updateEngagementIn(@, engs, mergeResponders(engs, conversations))]

\* the exchange startExchange creates next
nextExchange(question) ==
    [id |-> generateId(exchangesStarted + 1, "r1"), timestamp |-> exchangesStarted + 1,
     question |-> question, responses |-> <<>>]

\* generateSingleResponse(paperId, paragraphIndex, ..., exchangeId) called in a render
\* of the active pair
streamOf(paperId, paragraphIndex, exchangeId) ==
    [pair |-> activePair, paragraphIndex |-> paragraphIndex, exchangeId |-> exchangeId,
     paperId |-> paperId, stream |-> "streaming"]

ReadingFrame ==
    /\ UNCHANGED <<tokenCalls, promptCalls, identityCalls>>
    /\ UNCHANGED <<storeVars, chatVars, pageVars>>
    /\ UNCHANGED <<papers, papersView, extractions, sourceTexts, lastEvent, workspaces,
                   workspacesView, activeWorkspaceId, activeId>>

\* handleClickSourceFlag in the reading view, with the call its timer makes
FlagClicked(paragraphIndex, paperId) ==
    /\ exchangesStarted < MaxExchanges
    /\ ~isHeader(paragraphIndex)
    /\ paperId \in viewEngagements[paragraphIndex].ids
    /\ LET saved == addExchangeIn(conversationsOf[activePair], paragraphIndex,
                                  nextExchange(NoQuestion))
       IN  /\ conversationsOf' = [conversationsOf EXCEPT ![activePair] = saved]
           /\ savedConversations' = getItem(saved)
           /\ mergeEffect(activePair, viewEngagements, getItem(saved))
    /\ streams' = Append(streams, streamOf(paperId, paragraphIndex,
                                           nextExchange(NoQuestion).id))
    /\ loadingSourceId' = paperId
    /\ exchangesStarted' = exchangesStarted + 1
    /\ UNCHANGED activePair
    /\ ReadingFrame

\* getEngagedSourceIds(paragraphIndex): the papers of the entries, in their order
currentEngagedPaperIds(paragraphIndex) ==
    SelectSeq(<<"p1", "p2">>, LAMBDA id : id \in viewEngagements[paragraphIndex].ids)

\* handleAsk in broadcast mode; the Ask button is disabled while loadingSourceId is set
handleAsk(paragraphIndex, question) ==
    /\ loadingSourceId = NoLoading
    /\ exchangesStarted < MaxExchanges
    /\ ~isHeader(paragraphIndex)
    /\ LET saved == addExchangeIn(conversationsOf[activePair], paragraphIndex,
                                  nextExchange(question))
           asked == currentEngagedPaperIds(paragraphIndex)
       IN  /\ conversationsOf' = [conversationsOf EXCEPT ![activePair] = saved]
           /\ savedConversations' = getItem(saved)
           /\ mergeEffect(activePair, viewEngagements, getItem(saved))
           /\ streams' = streams \o
                  [k \in 1..Len(asked) |->
                      streamOf(asked[k], paragraphIndex, nextExchange(question).id)]
           /\ loadingSourceId' = IF asked = <<>> THEN loadingSourceId
                                 ELSE asked[Len(asked)]
    /\ exchangesStarted' = exchangesStarted + 1
    /\ UNCHANGED activePair
    /\ ReadingFrame

\* stream c reads its done event after content: addResponseToStorage of the render the
\* call was made in, then finally
StreamEnds(c) ==
    /\ streams[c].stream = "streaming"
    /\ streams' = [streams EXCEPT ![c].stream = "done"]
    /\ LET saved == addResponseIn(conversationsOf[streams[c].pair],
                                  streams[c].paragraphIndex, streams[c].exchangeId,
                                  [sourceId |-> streams[c].paperId, content |-> <<c>>],
                                  exchangesStarted)
       IN  /\ conversationsOf' = [conversationsOf EXCEPT ![streams[c].pair] = saved]
           /\ savedConversations' = getItem(saved)
           /\ mergeEffect(activePair, viewEngagements, getItem(saved))
    /\ loadingSourceId' = NoLoading
    /\ UNCHANGED <<activePair, exchangesStarted>>
    /\ ReadingFrame

\* stream c reads an error event or throws: nothing is stored, then finally
StreamBreaks(c) ==
    /\ streams[c].stream = "streaming"
    /\ streams' = [streams EXCEPT ![c].stream = "failed"]
    /\ loadingSourceId' = NoLoading
    /\ UNCHANGED <<activePair, conversationsOf, savedConversations, scanEngagementsOf,
                   viewEngagements, exchangesStarted>>
    /\ ReadingFrame

\* setActivePaper or switchWorkspace: the load effects of the two hooks, then the
\* effect on savedConversations
PairSwitched(pair) ==
    /\ pair # activePair
    /\ activePair' = pair
    /\ savedConversations' = getItem(conversationsOf[pair])
    /\ mergeEffect(pair, scanEngagementsOf[pair], getItem(conversationsOf[pair]))
    /\ UNCHANGED <<conversationsOf, streams, loadingSourceId, exchangesStarted>>
    /\ ReadingFrame

ReadingInit == EmptyStore /\ NoRequest /\ NoPage /\ NoLibrary /\ NoCalls

ReadingNext ==
    \/ \E paragraphIndex \in DOMAIN paragraphTypes, paperId \in Papers :
          FlagClicked(paragraphIndex, paperId)
    \/ \E paragraphIndex \in DOMAIN paragraphTypes : handleAsk(paragraphIndex, "q1")
    \/ \E c \in 1..Len(streams) : StreamEnds(c)
    \/ \E c \in 1..Len(streams) : StreamBreaks(c)
    \/ \E pair \in ReadingPairs : PairSwitched(pair)

\* the reading view while the reader moves between pairs and responses stream
SpecReading == ReadingInit /\ [][ReadingNext]_vars

\* the stream that accumulated the content of a stored response
streamOfResponse(response) == streams[response.content[1]]

\* every response in the store of a pair was requested in a render of that pair, for
\* the paragraph and the exchange that hold it
storedUnderOwnPair ==
    \A pair \in ReadingPairs :
        LET conversations == getItem(conversationsOf[pair])
        IN  \A p \in 1..Len(conversations) :
              \A i \in 1..Len(conversations[p].exchanges) :
                \A k \in 1..Len(conversations[p].exchanges[i].responses) :
                  LET from == streamOfResponse(conversations[p].exchanges[i].responses[k])
                  IN  /\ from.pair = pair
                      /\ from.paragraphIndex = conversations[p].paragraphIndex
                      /\ from.exchangeId = conversations[p].exchanges[i].id

\* C36: the conversation list of the view is the stored conversations of the active
\* pair, its engagement cache names only papers the scan of the active pair found or
\* papers that responded in the active pair's conversations, and every stored response
\* is under the pair it was requested for.
C36_ViewShowsActivePair ==
    /\ savedConversations = getItem(conversationsOf[activePair])
    /\ \A i \in DOMAIN viewEngagements :
          viewEngagements[i].ids \subseteq
              scannedFor(activePair)
                  \cup respondersIn(getItem(conversationsOf[activePair]), i)
    /\ storedUnderOwnPair

\* C37: while a stream of the view has not ended, loadingSourceId is set.
C37_BusyWhileStreaming ==
    (\E c \in 1..Len(streams) : streams[c].stream = "streaming")
        => loadingSourceId # NoLoading

(***************************************************************************)
(* The library: what becomes of an extraction that was started.            *)
(***************************************************************************)
\* the request of an extraction of paper `id` ends: the fetch resolves or rejects
ExtractionEnds(id) ==
    /\ ExtractionSucceeds \/ ExtractionFails \/ ExtractionAborted
    /\ \E e \in extractions : e.paperId = id /\ e \notin extractions'

\* every request that is in flight ends
SpecLibraryFair ==
    /\ LibraryInit
    /\ [][LibraryNext]_vars
    /\ \A id \in elementsOf(LibraryIds) : WF_vars(ExtractionEnds(id))

\* the paper is processing and an extraction of it is in flight
extracting(id) ==
    /\ id \in idsOf(papers)
    /\ paperOf(papers, id).status = "processing"
    /\ \E e \in extractions : e.paperId = id

\* the paper is ready or in error, or it has been deleted
settled(id) ==
    id \in idsOf(papers) => paperOf(papers, id).status \in {"ready", "error"}

\* C38: a paper that is processing with an extraction in flight is later ready or in
\* error (or deleted), however the request ends: with a result, a failure or an abort.
C38_ExtractionResolvesStatus ==
    \A id \in elementsOf(LibraryIds) : [](extracting(id) => <>settled(id))

(***************************************************************************)
(* The library with workspaces: a paper is deleted while its extraction is *)
(* in flight.                                                              *)
(***************************************************************************)
\* an empty library and one workspace, which is the active one
LibraryOfNone ==
    /\ papers = <<>>
    /\ papersView = <<>>
    /\ extractions = {}
    /\ sourceTexts = <<>>
    /\ lastEvent = NoEvent
    /\ workspaces = <<[id |-> WorkspaceIds[1], paperIds |-> <<>>, activePaperId |-> NoPaper]>>
    /\ workspacesView = workspaces
    /\ activeWorkspaceId = WorkspaceIds[1]
    /\ activeId = WorkspaceIds[1]

DeletionInit == EmptyStore /\ NoRequest /\ NoPage /\ LibraryOfNone /\ NoCalls

\* Texts are uploaded, their extractions end, papers are added to the workspace and
\* deleted.
DeletionNext ==
    \/ Upload
    \/ ExtractionSucceeds
    \/ ExtractionFails
    \/ DeleteShownPaper
    \/ handleAddToActiveWorkspace

\* the library page while papers are uploaded, put into the workspace and deleted
SpecDeletion == DeletionInit /\ [][DeletionNext]_vars

\* the result of an extraction arrives for a paper that is no longer stored
lateResult ==
    /\ ExtractionSucceeds \/ ExtractionFails
    /\ lastEvent'.id \notin idsOf(papers)

\* C39: when the result of an extraction, success or failure, arrives for a paper that
\* has been deleted, the stored papers and the stored workspaces are left as they were:
\* the paper is not stored again, no other paper changes and no workspace lists its id.
C39_LateResultChangesNothing ==
    [][lateResult =>
          /\ papers' = papers
          /\ workspaces' = workspaces
          /\ \A k \in 1..Len(workspaces') :
                lastEvent'.id \notin elementsOf(workspaces'[k].paperIds)]_vars

\* the result of an extraction has arrived for a deleted paper, while another paper is
\* stored and is in the workspace
C39_Witness ==
    /\ lastEvent.kind \in {"succeeded", "failed"}
    /\ lastEvent.before = NoPaperRecord
    /\ lastEvent.id \notin idsOf(papers)
    /\ \E k \in 1..Len(workspaces) :
          /\ elementsOf(workspaces[k].paperIds) \cap idsOf(papers) # {}
          /\ lastEvent.id \notin elementsOf(workspaces[k].paperIds)

====
